---- MODULE Spec2Model ----
(***************************************************************************)
(* A model of pi-recall: the sqlite-vec backed MemoryStore (src/store.ts)  *)
(* and the embedder proxy with its child worker (src/embedder-proxy.ts,    *)
(* src/embedder-worker.ts).                                                *)
(*                                                                         *)
(* Numbers.  Embedding coordinates are integers and every pair of vectors  *)
(* of the pool lies on one axis, so the L2 distance the vector index       *)
(* reports is an exact integer.  A similarity is 1 - d*d/2, a multiple of  *)
(* 1/2: similarities and thresholds are counted in units of 1/SimUnit.     *)
(***************************************************************************)
EXTENDS Integers, Sequences, FiniteSets, TLC

\* ------------------------------------------------------------------ bounds
\* Successful and failed inserts are possible while seq < MaxAdds.
MaxAdds == 2
\* The clock (new Date()) runs from 0 to MaxClock.
MaxClock == 1
\* search is called with limit in 0..MaxLimit.
MaxLimit == 2

\* embed and embedBatch are called, with a non-empty input, MaxCalls times at
\* most; each call spawns at most one child: child processes 1..MaxCalls.
MaxCalls == 2
\* A parent writes lines to a worker run alone while the lines in its stdin
\* and stdout are fewer than MaxLines.
MaxLines == 3
\* The core of a reply of the completion function has MaxCore tokens at most.
MaxCore == 3
\* An array in a reply of the completion function has MaxItems items at most.
MaxItems == 3
\* extractMemories is called with 0..MaxMessages session messages.
MaxMessages == 1
\* detectLanguage is called with paths of MaxPath characters at most.
MaxPath == 4
\* A query yields MaxCaptures captured nodes at most.
MaxCaptures == 3
\* A run of the extraction worker has MaxCandidates extracted memories at most.
MaxCandidates == 2
\* The extension's handlers are called MaxHandled times at most, and its
\* cleanup handler runs MaxCleanups times at most.
MaxHandled == 2
MaxCleanups == 1

\* --------------------------------------------------------- program constants
\* The dimension the store is constructed with (DIMS of the store's tests).
Dim == 4
\* Math.max(limit * 2, 20): the floor of the number of candidates fetched.
FetchFloor == 20
\* The divisor of l2ToCosine, 1 - d*d / 2: a similarity is counted in halves.
SimUnit == 2

\* ------------------------------------------------------------------ inputs
Coords == {-1, 0, 1}
\* A vector of n coordinates on the first axis.
Vec(x, n) == [i \in 1..n |-> IF i = 1 THEN x ELSE 0]
\* Embeddings of the store's dimension, and of a wrong one.
GoodVecs == {Vec(x, Dim) : x \in Coords}
BadVecs == {Vec(1, Dim - 1), Vec(1, Dim + 1)}
Texts == {"t1"}
Sessions == {"s1"}
\* Thresholds, in units of 1/SimUnit: -1, 0, 0.5, 1.
Thresholds == {-2, 0, 1, 2}
Limits == 0..MaxLimit
\* Where a statement of a transaction may throw (a storage I/O failure).
Faults == {"none", "first", "second"}

\* The maxMemories option of extractMemories: absent (<<>>), or a number.
MaxMemoriesOptions == {<<>>, <<1>>}
\* The callers of one proxy, and the sizes of the batches they embed.
Callers == {"a", "b"}
BatchSizes == {0, 1}
Children == 1..MaxCalls

VARIABLES
    db,          \* this.db: [memories, memories_vec, seq (sqlite_sequence)]
    now,         \* the clock read by new Date()
    ret,         \* the call that has just returned: its arguments and outcome
    returnedIds, \* history: the ids returned by add, in order
    deleted      \* history: the ids a completed delete removed

VARIABLES
    child,       \* the proxy's `child`: 0 for null, or the child process
    rl,          \* the proxy's `rl`: 0 for null, or the child it reads
    pending,     \* pendingResolve and pendingReject: "" for null, or the caller
    readyP,      \* per child, the promise ensureChild returned at its spawn
    proc,        \* per child, the state of the process
    stdin,       \* per child, the requests written to it and not yet read
    stdout,      \* per child, the lines it wrote, not yet handed to `line`
    call,        \* per caller, the position and outcome of its embed call
    ncalls       \* history: the calls of embed, and of embedBatch with texts, so far

VARIABLES
    xpc,           \* extractMemories: "idle", "awaitComplete", "returned", "rejected"
    messages,      \* the number of session messages of the call
    completeCalls, \* history: the invocations of `complete` by the call
    reply,         \* the reply of `complete`: [wrap, core], the text is Build(reply)
    maxMemories,   \* extractMemories: maxMemories, options?.maxMemories ?? 20
    extracted      \* the outcome of the call: [status, memories]

VARIABLES
    parserInitialized, \* signature.ts: parserInitialized
    loadedLanguages,   \* the language keys of the loadedLanguages map
    compiledQueries,   \* the language keys of the compiledQueries map
    sig                \* the call that has just returned: its arguments and result

VARIABLES
    scall,                 \* per caller, the position and outcome of its extraction call
    exitHandlerRegistered, \* signature.ts: exitHandlerRegistered
    inits,                 \* history: the calls of Parser.init() since the last disposal
    loads,                 \* history: per language, the calls of Language.load() since then
    compiles,              \* history: per language, the queries compiled since then
    undeleted              \* history: per language, the Query objects created and not deleted

VARIABLES
    run          \* extraction-worker.ts main: position, candidates and counters of a run
\* The extension instance (index.ts).
VARIABLES
    store,            \* the closure's `store`: "null" or "open"
    connection,       \* the connection of the MemoryStore: "none", "open", "closed"
    storeInitialized, \* the closure's `storeInitialized`
    embedder,         \* the closure's `embedder`: 0 for null, or a proxy
    proxies,          \* per proxy created, its child: "none", "alive", "killed"
    handler,          \* per handler in flight, its position, event and outcome
    cleanup,          \* the cleanup handler: its position, the runs completed, and
                      \* the number of handlers called when the last run began
    handled           \* history: the handlers called

storeVars == <<db, now, ret, returnedIds, deleted>>
proxyVars == <<child, rl, pending, readyP, proc, stdin, stdout, call, ncalls>>
extractorVars == <<xpc, messages, completeCalls, reply, maxMemories, extracted>>
signatureVars == <<parserInitialized, loadedLanguages, compiledQueries, sig>>
callVars == <<scall, exitHandlerRegistered, inits, loads, compiles, undeleted>>
extensionVars == <<store, connection, storeInitialized, embedder, proxies, handler,
                   cleanup, handled>>
vars == <<db, now, ret, returnedIds, deleted,
          child, rl, pending, readyP, proc, stdin, stdout, call, ncalls,
          xpc, messages, completeCalls, reply, maxMemories, extracted,
          parserInitialized, loadedLanguages, compiledQueries, sig,
          scall, exitHandlerRegistered, inits, loads, compiles, undeleted,
          run,
          store, connection, storeInitialized, embedder, proxies, handler,
          cleanup, handled>>
\* What an operation of one component leaves alone: the other components.
outsideStore == <<proxyVars, extractorVars, signatureVars, callVars, run, extensionVars>>
outsideProxy == <<storeVars, extractorVars, signatureVars, callVars, run, extensionVars>>
outsideExtractor == <<storeVars, proxyVars, signatureVars, callVars, run, extensionVars>>
outsideSignature == <<storeVars, proxyVars, extractorVars, callVars, run, extensionVars>>
outsideCalls == <<storeVars, proxyVars, extractorVars, sig, run, extensionVars>>
outsideRun == <<now, ret, returnedIds, deleted,
                proxyVars, extractorVars, signatureVars, callVars, extensionVars>>
outsideExtension == <<now, ret, returnedIds, deleted, proxyVars, extractorVars, sig,
                      scall, exitHandlerRegistered, inits, loads, compiles, run>>

\* ------------------------------------------------------------------ helpers
Max(S) == CHOOSE x \in S : \A y \in S : y <= x
Min(S) == CHOOSE x \in S : \A y \in S : x <= y

NoRet ==
    [op |-> "none", embedding |-> <<>>, threshold |-> 0, limit |-> 0, id |-> 0,
     fault |-> "none", err |-> "none", expected |-> 0, actual |-> 0,
     result |-> <<>>, n |-> 0]

\* ---------------------------------------------------------------- the tables
\* id INTEGER PRIMARY KEY AUTOINCREMENT: one more than the largest id ever
\* used, kept in sqlite_sequence, also when that row was deleted.
NextIdReuse(d) == IF DOMAIN d.memories = {} THEN 1 ELSE Max(DOMAIN d.memories) + 1
NextId(d) == Max({d.seq} \cup DOMAIN d.memories) + 1

\* An insert that also stamps every row with the new created_at.
InsertMemoryRestamp(d, text, createdAt, sessionId) ==
    LET id == NextId(d)
    IN [d EXCEPT !.memories = [i \in DOMAIN d.memories \cup {id} |->
                                  IF i = id
                                  THEN [text |-> text, created_at |-> createdAt,
                                        session_id |-> sessionId]
                                  ELSE [d.memories[i] EXCEPT !.created_at = createdAt]],
                 !.seq = id]

\* INSERT INTO memories (text, created_at, session_id) VALUES (?, ?, ?)
InsertMemory(d, text, createdAt, sessionId) ==
    LET id == NextId(d)
    IN [d EXCEPT !.memories = [i \in DOMAIN d.memories \cup {id} |->
                                  IF i = id
                                  THEN [text |-> text, created_at |-> createdAt,
                                        session_id |-> sessionId]
                                  ELSE d.memories[i]],
                 !.seq = id]

\* INSERT INTO memories_vec(rowid, embedding) VALUES (:rowid, :embedding)
InsertVec(d, rowid, embedding) ==
    [d EXCEPT !.memories_vec = [i \in DOMAIN d.memories_vec \cup {rowid} |->
                                   IF i = rowid THEN embedding ELSE d.memories_vec[i]]]

\* DELETE FROM memories WHERE id = ?
DeleteMemory(d, id) ==
    [d EXCEPT !.memories = [i \in DOMAIN d.memories \ {id} |-> d.memories[i]]]

\* DELETE FROM memories_vec WHERE rowid = ?
DeleteVecNothing(d, id) == d
DeleteVec(d, id) ==
    [d EXCEPT !.memories_vec = [i \in DOMAIN d.memories_vec \ {id} |-> d.memories_vec[i]]]

\* this.db.transaction(fn)(): the statements of fn up to the one that throws
\* have produced `partial`; a throw rolls back to `before`.
TransactionNoRollback(before, partial, threw) == partial
Transaction(before, partial, threw) == IF threw THEN before ELSE partial

\* The state the body of add's transaction reaches under a fault.
AddBody(d, text, createdAt, sessionId, embedding, fault) ==
    IF fault = "first" THEN d
    ELSE LET d1 == InsertMemory(d, text, createdAt, sessionId)
         IN IF fault = "second" THEN d1 ELSE InsertVec(d1, d1.seq, embedding)

\* The state the body of delete's transaction reaches under a fault.
DeleteBody(d, id, fault) ==
    IF fault = "first" THEN d
    ELSE LET d1 == DeleteMemory(d, id)
         IN IF fault = "second" THEN d1 ELSE DeleteVec(d1, id)

\* embedding.length !== this.dimensions
DimensionOkAlways(embedding) == TRUE
DimensionOk(embedding) == Len(embedding) = Dim

\* --------------------------------------------------------------- the search
SumSq(a, b) ==
    LET RECURSIVE S(_)
        S(i) == IF i = 0 THEN 0 ELSE (a[i] - b[i]) * (a[i] - b[i]) + S(i - 1)
    IN S(Len(a))

\* The exact square root; the pool holds only vectors at integer distances.
ISqrt(n) == CHOOSE r \in 0..n : r * r = n

\* vec0's distance column: the L2 (Euclidean) distance of a row to the query.
L2Distance(a, b) == ISqrt(SumSq(a, b))

\* l2ToCosine without the leading 1: - d*d/2.
l2ToCosineNoOffset(l2Distance) == 0 - (l2Distance * l2Distance * SimUnit) \div 2

\* l2ToCosine: 1 - d*d/2, in units of 1/SimUnit.
l2ToCosine(l2Distance) == SimUnit - (l2Distance * l2Distance * SimUnit) \div 2

\* Math.max(limit * 2, 20)
fetchLimitBelow(limit) == limit - 1
fetchLimit(limit) == IF limit * 2 > FetchFloor THEN limit * 2 ELSE FetchFloor

\* The rowids of memories_vec JOIN memories ON m.id = v.rowid.
Joined(d) == DOMAIN d.memories_vec \cap DOMAIN d.memories

\* The rowids in S, in rowid order: the order of a scan that is no KNN query.
RECURSIVE ByRowid(_)
ByRowid(S) ==
    IF S = {} THEN <<>>
    ELSE LET m == CHOOSE x \in S : \A y \in S : x <= y
         IN <<m>> \o ByRowid(S \ {m})

\* The rowids in S nearest first; rows at one distance in rowid order.
RECURSIVE Nearest(_, _, _)
Nearest(d, query, S) ==
    IF S = {} THEN <<>>
    ELSE LET dist(i) == L2Distance(d.memories_vec[i], query)
             m == CHOOSE x \in S : \A y \in S :
                     \/ dist(x) < dist(y)
                     \/ dist(x) = dist(y) /\ x <= y
         IN <<m>> \o Nearest(d, query, S \ {m})

\* WHERE v.embedding MATCH :query AND k = :k: the k nearest rows, nearest
\* first, each with its distance and its memory.
KnnRowsUnordered(d, query, k) ==
    LET all == ByRowid(Joined(d))
        n == IF Len(all) < k THEN Len(all) ELSE k
    IN [i \in 1..n |->
          [rowid |-> all[i], distance |-> L2Distance(d.memories_vec[all[i]], query),
           text |-> d.memories[all[i]].text,
           created_at |-> d.memories[all[i]].created_at,
           session_id |-> d.memories[all[i]].session_id]]
KnnRows(d, query, k) ==
    LET all == Nearest(d, query, Joined(d))
        n == IF Len(all) < k THEN Len(all) ELSE k
    IN [i \in 1..n |->
          [rowid |-> all[i], distance |-> L2Distance(d.memories_vec[all[i]], query),
           text |-> d.memories[all[i]].text,
           created_at |-> d.memories[all[i]].created_at,
           session_id |-> d.memories[all[i]].session_id]]

\* if (similarity < threshold) continue;
BelowThresholdNever(similarity, threshold) == FALSE
BelowThresholdInverted(similarity, threshold) == similarity > threshold
BelowThreshold(similarity, threshold) == similarity < threshold

\* if (results.length >= limit) break;  (tested after the push)
LimitReached(results, limit) == Len(results) >= limit

\* for (const row of rows) { ... }: the loop of search from row i on.
RECURSIVE SearchLoop(_, _, _, _, _)
SearchLoop(rows, i, threshold, limit, results) ==
    IF i > Len(rows) THEN results
    ELSE LET row == rows[i]
             similarity == l2ToCosine(row.distance)
         IN IF BelowThreshold(similarity, threshold)
            THEN SearchLoop(rows, i + 1, threshold, limit, results)
            ELSE LET pushed == Append(results,
                                 [memory |-> [id |-> row.rowid, text |-> row.text,
                                              createdAt |-> row.created_at,
                                              sessionId |-> row.session_id],
                                  similarity |-> similarity])
                 IN IF LimitReached(pushed, limit) THEN pushed
                    ELSE SearchLoop(rows, i + 1, threshold, limit, pushed)

\* MemoryStore.search, for an embedding of the store's dimension.
search(d, embedding, threshold, limit) ==
    SearchLoop(KnnRows(d, embedding, fetchLimit(limit)), 1, threshold, limit, <<>>)

\* MemoryStore.count
count(d) == Cardinality(DOMAIN d.memories)

\* MemoryStore.list: s is a result of list() when it holds every row once,
\* ORDER BY created_at DESC; the order of rows with one created_at is not set.
IsList(d, s) ==
    /\ Len(s) = Cardinality(DOMAIN d.memories)
    /\ {s[i].id : i \in 1..Len(s)} = DOMAIN d.memories
    /\ \A i \in 1..Len(s) :
          /\ s[i].text = d.memories[s[i].id].text
          /\ s[i].createdAt = d.memories[s[i].id].created_at
          /\ s[i].sessionId = d.memories[s[i].id].session_id
    /\ \A i \in 1..Len(s) - 1 : s[i].createdAt >= s[i + 1].createdAt

MemoryOf(d, id) ==
    [id |-> id, text |-> d.memories[id].text, createdAt |-> d.memories[id].created_at,
     sessionId |-> d.memories[id].session_id]

RECURSIVE Perms(_)
Perms(S) ==
    IF S = {} THEN {<<>>}
    ELSE UNION {{<<x>> \o p : p \in Perms(S \ {x})} : x \in S}

Lists(d) ==
    {s \in {[i \in 1..Len(p) |-> MemoryOf(d, p[i])] : p \in Perms(DOMAIN d.memories)} :
        IsList(d, s)}

\* --------------------------------------------------------------- the store
StoreInit ==
    /\ db = [memories |-> <<>>, memories_vec |-> <<>>, seq |-> 0]
    /\ now = 0
    /\ ret = NoRet
    /\ returnedIds = <<>>
    /\ deleted = {}

\* Time passes between two calls.
Tick ==
    /\ now < MaxClock
    /\ now' = now + 1
    /\ UNCHANGED <<db, ret, returnedIds, deleted>>
    /\ UNCHANGED outsideStore

\* MemoryStore.add(text, embedding, sessionId)
Add(text, embedding, sessionId, fault) ==
    /\ ret.op = "none"
    /\ db.seq < MaxAdds
    /\ IF ~DimensionOk(embedding)
       THEN /\ fault = "none"
            /\ ret' = [NoRet EXCEPT !.op = "add", !.embedding = embedding,
                                    !.err = "dim", !.expected = Dim,
                                    !.actual = Len(embedding)]
            /\ UNCHANGED <<db, returnedIds>>
       ELSE LET threw == fault # "none"
                partial == AddBody(db, text, now, sessionId, embedding, fault)
            IN /\ db' = Transaction(db, partial, threw)
               /\ ret' = [NoRet EXCEPT !.op = "add", !.embedding = embedding,
                                       !.fault = fault,
                                       !.err = IF threw THEN "io" ELSE "none",
                                       !.id = IF threw THEN 0 ELSE partial.seq]
               /\ returnedIds' = IF threw THEN returnedIds
                                 ELSE Append(returnedIds, partial.seq)
    /\ UNCHANGED <<now, deleted>>
    /\ UNCHANGED outsideStore

\* MemoryStore.delete(id)
Delete(id, fault) ==
    LET threw == fault # "none"
        partial == DeleteBody(db, id, fault)
    IN /\ ret.op = "none"
       /\ db' = Transaction(db, partial, threw)
       /\ ret' = [NoRet EXCEPT !.op = "delete", !.id = id, !.fault = fault,
                               !.err = IF threw THEN "io" ELSE "none"]
       /\ deleted' = IF ~threw /\ id \in DOMAIN db.memories
                     THEN deleted \cup {id} ELSE deleted
       /\ UNCHANGED <<now, returnedIds>>
       /\ UNCHANGED outsideStore

\* MemoryStore.search(embedding, threshold, limit)
Search(embedding, threshold, limit) ==
    /\ ret.op = "none"
    /\ IF ~DimensionOk(embedding)
       THEN ret' = [NoRet EXCEPT !.op = "search", !.embedding = embedding,
                                 !.threshold = threshold, !.limit = limit,
                                 !.err = "dim", !.expected = Dim,
                                 !.actual = Len(embedding)]
       ELSE ret' = [NoRet EXCEPT !.op = "search", !.embedding = embedding,
                                 !.threshold = threshold, !.limit = limit,
                                 !.result = search(db, embedding, threshold, limit)]
    /\ UNCHANGED <<db, now, returnedIds, deleted>>
    /\ UNCHANGED outsideStore

\* MemoryStore.list()
List ==
    /\ ret.op = "none"
    /\ \E s \in Lists(db) : ret' = [NoRet EXCEPT !.op = "list", !.result = s]
    /\ UNCHANGED <<db, now, returnedIds, deleted>>
    /\ UNCHANGED outsideStore

\* MemoryStore.count()
Count ==
    /\ ret.op = "none"
    /\ ret' = [NoRet EXCEPT !.op = "count", !.n = count(db)]
    /\ UNCHANGED <<db, now, returnedIds, deleted>>
    /\ UNCHANGED outsideStore

\* The caller has the outcome of its call and goes on to its next call.
Return ==
    /\ ret.op # "none"
    /\ ret' = NoRet
    /\ UNCHANGED <<db, now, returnedIds, deleted>>
    /\ UNCHANGED outsideStore

StoreNext ==
    \/ Tick
    \/ Return
    \/ \E t \in Texts, e \in GoodVecs \cup BadVecs, s \in Sessions, f \in Faults :
          Add(t, e, s, f)
    \/ \E id \in 1..MaxAdds, f \in Faults : Delete(id, f)
    \/ \E e \in GoodVecs \cup BadVecs, t \in Thresholds, k \in Limits : Search(e, t, k)
    \/ List
    \/ Count


\* ------------------------------------------------------- the embedder proxy
\* A call: its position, the number of its texts, the child it waits for, and
\* its outcome (the number of vectors it resolved with, or its error).
NoCall == [pc |-> "idle", n |-> 0, k |-> 0, value |-> 0, error |-> "none"]

ProxyInit ==
    /\ child = 0
    /\ rl = 0
    /\ pending = ""
    /\ readyP = [k \in Children |-> "none"]
    /\ proc = [k \in Children |-> "unspawned"]
    /\ stdin = [k \in Children |-> <<>>]
    /\ stdout = [k \in Children |-> <<>>]
    /\ call = [c \in Callers |-> NoCall]
    /\ ncalls = 0

\* The states of a child process: "unspawned"; "spawnfail" (the spawn failed,
\* its error event is to come) and then "errored"; "loading" and "ready";
\* "dead" (it ended by itself) or "killed" (dispose killed it), its exit
\* event to come, and then "reaped".
\* A child process that runs: it loads the model, or it serves requests.
Live(k) == proc[k] \in {"loading", "ready"}

\* The continuation of caller c is a queued microtask: the promise it awaits
\* is settled.  Microtasks run before the next event is dispatched.
Runnable(c) ==
    \/ call[c].pc = "ensured"
    \/ call[c].pc = "awaitReady" /\ readyP[call[c].k] \in {"resolved", "rejected"}
NoMicrotask == \A c \in Callers : ~Runnable(c)

\* A failed spawn emits `error` on the next tick: after the code that runs
\* now, and before any microtask and any other event.
NoErrorTick == \A k \in Children : proc[k] # "spawnfail"

\* pendingReject(err); pendingReject = null; pendingResolve = null
RejectPending(calls, error) ==
    IF pending = "" THEN calls
    ELSE [calls EXCEPT ![pending].pc = "rejected", ![pending].error = error,
                       ![pending].k = 0]

\* `if (texts.length === 0) return []`: embedBatch resolves with the empty
\* list and touches nothing else.
EmptyBatch(c) ==
    /\ call' = [call EXCEPT ![c] = [NoCall EXCEPT !.pc = "resolved"]]
    /\ UNCHANGED <<child, rl, pending, readyP, proc, stdin, stdout, ncalls>>

\* `await ensureChild()`, called for n texts.  With a child, ensureChild returns
\* Promise.resolve(); without one it spawns child k and returns the promise
\* that the ready line resolves.
EnsureChild(c, n, spawnOk) ==
    /\ ncalls < MaxCalls
    /\ ncalls' = ncalls + 1
    /\ IF child # 0
       THEN /\ spawnOk
            /\ call' = [call EXCEPT ![c] = [NoCall EXCEPT !.pc = "ensured", !.n = n]]
            /\ UNCHANGED <<child, rl, pending, readyP, proc, stdin, stdout>>
       ELSE /\ \E k \in Children :
                  /\ proc[k] = "unspawned"
                  /\ \A j \in Children : j < k => proc[j] # "unspawned"
                  /\ child' = k
                  /\ rl' = k
                  /\ proc' = [proc EXCEPT ![k] = IF spawnOk THEN "loading"
                                                 ELSE "spawnfail"]
                  /\ readyP' = [readyP EXCEPT ![k] = "pending"]
                  /\ call' = [call EXCEPT ![c] =
                                [NoCall EXCEPT !.pc = "awaitReady",
                                               !.n = n, !.k = k]]
            /\ UNCHANGED <<pending, stdin, stdout>>

\* embedBatch without its first line: it goes to ensureChild() whatever the
\* number of texts.
CallNoEarlyReturn(c, kind, n, spawnOk) ==
    /\ call[c].pc \in {"idle", "resolved", "rejected"}
    /\ \/ kind = "embed" /\ n = 1
       \/ kind = "embedBatch" /\ n \in BatchSizes
    /\ EnsureChild(c, n, spawnOk)
    /\ UNCHANGED outsideProxy

\* embed(text) and embedBatch(texts) up to their first await.
Call(c, kind, n, spawnOk) ==
    /\ call[c].pc \in {"idle", "resolved", "rejected"}
    /\ \/ kind = "embed" /\ n = 1
       \/ kind = "embedBatch" /\ n \in BatchSizes
    /\ IF kind = "embedBatch" /\ n = 0
       THEN spawnOk /\ EmptyBatch(c)
       ELSE EnsureChild(c, n, spawnOk)
    /\ UNCHANGED outsideProxy

\* The continuation after `await ensureChild()`: it throws when the promise
\* was rejected, and calls send() otherwise.  send() rejects without a child
\* and else takes the pending slot and writes the request to child.stdin.
Continue(c) ==
    /\ Runnable(c)
    /\ NoErrorTick
    /\ IF call[c].pc = "awaitReady" /\ readyP[call[c].k] = "rejected"
       THEN /\ call' = [call EXCEPT ![c].pc = "rejected", ![c].error = "spawn", ![c].k = 0]
            /\ UNCHANGED <<pending, stdin>>
       ELSE IF child = 0
       THEN /\ call' = [call EXCEPT ![c].pc = "rejected",
                                    ![c].error = "Worker not running", ![c].k = 0]
            /\ UNCHANGED <<pending, stdin>>
       ELSE /\ pending' = c
            /\ stdin' = [stdin EXCEPT ![child] =
                           IF Live(child)
                           THEN Append(@, [type |-> "embed", from |-> c, n |-> call[c].n])
                           ELSE @]
            /\ call' = [call EXCEPT ![c].pc = "awaitResponse", ![c].k = child]
    /\ UNCHANGED <<child, rl, readyP, proc, stdout, ncalls>>
    /\ UNCHANGED outsideProxy

\* rl.on("line"): the next line of child k's stdout.
OnLine(k) ==
    /\ stdout[k] # <<>>
    /\ NoMicrotask
    /\ NoErrorTick
    /\ LET msg == Head(stdout[k])
       IN /\ stdout' = [stdout EXCEPT ![k] = Tail(@)]
          /\ IF msg.type = "noise"
             THEN UNCHANGED <<readyP, pending, call>>
             ELSE IF msg.type = "ready"
             THEN /\ readyP' = [readyP EXCEPT ![k] = IF @ = "pending" THEN "resolved" ELSE @]
                  /\ UNCHANGED <<pending, call>>
             ELSE IF pending # ""
             THEN /\ pending' = ""
                  /\ call' = [call EXCEPT ![pending] =
                                IF msg.type = "error"
                                THEN [@ EXCEPT !.pc = "rejected", !.error = "worker", !.k = 0]
                                ELSE [@ EXCEPT !.pc = "resolved", !.value = msg.n, !.k = 0]]
                  /\ UNCHANGED readyP
             ELSE UNCHANGED <<readyP, pending, call>>
    /\ UNCHANGED <<child, rl, proc, stdin, ncalls>>
    /\ UNCHANGED outsideProxy

\* child.on("exit"): child k has terminated.
OnExit(k) ==
    /\ proc[k] \in {"dead", "killed"}
    /\ NoMicrotask
    /\ NoErrorTick
    /\ proc' = [proc EXCEPT ![k] = "reaped"]
    /\ child' = 0
    /\ rl' = 0
    /\ call' = RejectPending(call, "Worker exited unexpectedly")
    /\ pending' = ""
    /\ UNCHANGED <<readyP, stdin, stdout, ncalls>>
    /\ UNCHANGED outsideProxy

\* child.on("error"): child k could not be spawned.
OnError(k) ==
    /\ proc[k] = "spawnfail"
    /\ proc' = [proc EXCEPT ![k] = "errored"]
    /\ child' = 0
    /\ rl' = 0
    /\ readyP' = [readyP EXCEPT ![k] = IF @ = "pending" THEN "rejected" ELSE @]
    /\ call' = RejectPending(call, "spawn")
    /\ pending' = ""
    /\ UNCHANGED <<stdin, stdout, ncalls>>
    /\ UNCHANGED outsideProxy

\* A dispose() that asks the child to exit and leaves it running.
DisposeGraceful ==
    /\ IF child = 0
       THEN UNCHANGED <<child, rl, proc, stdin>>
       ELSE /\ stdin' = [stdin EXCEPT ![child] =
                           IF Live(child)
                           THEN Append(@, [type |-> "exit", from |-> "", n |-> 0])
                           ELSE @]
            /\ child' = 0
            /\ rl' = 0
            /\ UNCHANGED proc
    /\ UNCHANGED <<pending, readyP, stdout, call, ncalls>>
    /\ UNCHANGED outsideProxy

\* dispose(): child.kill("SIGKILL"); child = null; rl = null
Dispose ==
    /\ IF child = 0
       THEN UNCHANGED <<child, rl, proc, stdin>>
       ELSE /\ proc' = [proc EXCEPT ![child] = IF Live(child) THEN "killed" ELSE @]
            /\ stdin' = [stdin EXCEPT ![child] = <<>>]
            /\ child' = 0
            /\ rl' = 0
    /\ UNCHANGED <<pending, readyP, stdout, call, ncalls>>
    /\ UNCHANGED outsideProxy

\* ---------------------------------------------------------- the worker
\* main(): createEmbedder() has loaded the model; the worker writes ready.
WorkerReady(k) ==
    /\ proc[k] = "loading"
    /\ proc' = [proc EXCEPT ![k] = "ready"]
    /\ stdout' = [stdout EXCEPT ![k] = Append(@, [type |-> "ready", n |-> 0, to |-> ""])]
    /\ UNCHANGED <<child, rl, pending, readyP, stdin, call, ncalls>>
    /\ UNCHANGED outsideProxy

\* main().catch: createEmbedder() failed and the worker exits with code 1.
WorkerFatal(k) ==
    /\ proc[k] = "loading"
    /\ proc' = [proc EXCEPT ![k] = "dead"]
    /\ stdin' = [stdin EXCEPT ![k] = <<>>]
    /\ UNCHANGED <<child, rl, pending, readyP, stdout, call, ncalls>>
    /\ UNCHANGED outsideProxy

\* The native runtime takes the worker down while it serves.
WorkerCrash(k) ==
    /\ proc[k] = "ready"
    /\ proc' = [proc EXCEPT ![k] = "dead"]
    /\ stdin' = [stdin EXCEPT ![k] = <<>>]
    /\ UNCHANGED <<child, rl, pending, readyP, stdout, call, ncalls>>
    /\ UNCHANGED outsideProxy

\* embedBatch of the in-process embedder the worker holds, called with n
\* texts: for no text it returns the empty list and does not run the model;
\* else it runs the model, which returns one vector per text or throws.
embedBatchOneVector(n, ok) ==
    IF ok THEN [invoked |-> TRUE, type |-> "result", n |-> 1]
    ELSE [invoked |-> TRUE, type |-> "error", n |-> 0]
embedBatch(n, ok) ==
    IF n = 0 THEN [invoked |-> FALSE, type |-> "result", n |-> 0]
    ELSE IF ok THEN [invoked |-> TRUE, type |-> "result", n |-> n]
    ELSE [invoked |-> TRUE, type |-> "error", n |-> 0]

\* for await (const line of rl): the worker reads one line of its stdin.  A
\* line that is no JSON makes JSON.parse throw, and the catch block writes an
\* error message.  An exit message ends the loop and the process.  An embed
\* request is answered with a result of as many vectors as texts, or with an
\* error message when embedBatch throws.  Any other message is read and
\* nothing is written.
WorkerServe(k, ok) ==
    /\ proc[k] = "ready"
    /\ stdin[k] # <<>>
    /\ LET msg == Head(stdin[k])
       IN IF msg.type = "noise"
          THEN /\ stdin' = [stdin EXCEPT ![k] = Tail(@)]
               /\ stdout' = [stdout EXCEPT ![k] =
                               Append(@, [type |-> "error", n |-> 0, to |-> msg.from])]
               /\ UNCHANGED proc
          ELSE IF msg.type = "exit"
          THEN /\ stdin' = [stdin EXCEPT ![k] = <<>>]
               /\ proc' = [proc EXCEPT ![k] = "dead"]
               /\ UNCHANGED stdout
          ELSE IF msg.type = "embed"
          THEN /\ stdin' = [stdin EXCEPT ![k] = Tail(@)]
               /\ stdout' = [stdout EXCEPT ![k] =
                               Append(@, [type |-> embedBatch(msg.n, ok).type,
                                          n |-> embedBatch(msg.n, ok).n,
                                          to |-> msg.from])]
               /\ UNCHANGED proc
          ELSE /\ stdin' = [stdin EXCEPT ![k] = Tail(@)]
               /\ UNCHANGED <<stdout, proc>>
    /\ UNCHANGED <<child, rl, pending, readyP, call, ncalls>>
    /\ UNCHANGED outsideProxy

\* A line that is no JSON reaches the child's stdout (a warning of the
\* native runtime).  The proxy skips such a line wherever it stands among the
\* other lines, so it is written to an empty stdout only.
WorkerNoise(k) ==
    /\ Live(k)
    /\ stdout[k] = <<>>
    /\ stdout' = [stdout EXCEPT ![k] = Append(@, [type |-> "noise", n |-> 0, to |-> ""])]
    /\ UNCHANGED <<child, rl, pending, readyP, proc, stdin, call, ncalls>>
    /\ UNCHANGED outsideProxy

ProxyNext ==
    \/ \E c \in Callers, kind \in {"embed", "embedBatch"}, n \in BatchSizes \cup {1},
          spawnOk \in BOOLEAN : Call(c, kind, n, spawnOk)
    \/ \E c \in Callers : Continue(c)
    \/ \E k \in Children : OnLine(k)
    \/ \E k \in Children : OnExit(k)
    \/ \E k \in Children : OnError(k)
    \/ Dispose
    \/ \E k \in Children : WorkerReady(k)
    \/ \E k \in Children : WorkerFatal(k)
    \/ \E k \in Children : WorkerCrash(k)
    \/ \E k \in Children, ok \in BOOLEAN : WorkerServe(k, ok)
    \/ \E k \in Children : WorkerNoise(k)

\* ------------------------------------------------- the worker, run alone
\* The lines a parent process may write to the worker's stdin: embed requests,
\* the exit message, another JSON message, and a line that is no JSON.
ParentLines ==
    {[type |-> "embed", from |-> "", n |-> n] : n \in BatchSizes}
    \cup {[type |-> t, from |-> "", n |-> 0] : t \in {"exit", "other", "noise"}}

\* The worker has been started by a parent: main() is at createEmbedder().
WorkerInit ==
    /\ child = 0
    /\ rl = 0
    /\ pending = ""
    /\ readyP = [k \in Children |-> "none"]
    /\ proc = [k \in Children |-> IF k = 1 THEN "loading" ELSE "unspawned"]
    /\ stdin = [k \in Children |-> <<>>]
    /\ stdout = [k \in Children |-> <<>>]
    /\ call = [c \in Callers |-> NoCall]
    /\ ncalls = 0

\* The parent writes a line to the stdin of worker k.
ParentWrite(k, line) ==
    /\ Live(k)
    /\ Len(stdin[k]) + Len(stdout[k]) < MaxLines
    /\ stdin' = [stdin EXCEPT ![k] = Append(@, line)]
    /\ UNCHANGED <<child, rl, pending, readyP, proc, stdout, call, ncalls>>
    /\ UNCHANGED outsideProxy

WorkerNext ==
    \/ \E k \in Children, line \in ParentLines : ParentWrite(k, line)
    \/ \E k \in Children : WorkerReady(k)
    \/ \E k \in Children : WorkerFatal(k)
    \/ \E k \in Children : WorkerCrash(k)
    \/ \E k \in Children, ok \in BOOLEAN : WorkerServe(k, ok)

\* ------------------------------------------------- the memory extractor
\* A text is a sequence of tokens.  "F" is a triple-backtick fence, "json"
\* and "js" are language tags, "nl" is a newline, "w" is a word of prose;
\* "[", "]" and "," are themselves; "{k:" opens an object with one key and
\* "}" closes it; an atom is the text of a JSON value without brackets.
Ws == {"nl"}
Atoms == {"M1", "M2", "B1", "B2", "null"}
CoreTokens == Atoms \cup {"[", "]", ",", "{k:", "}", "w"}

\* A JavaScript string is a sequence of characters; " " is white space.
\* String.prototype.trim().
RECURSIVE trim(_)
trim(str) ==
    IF str = <<>> THEN str
    ELSE IF Head(str) = " " THEN trim(Tail(str))
    ELSE IF str[Len(str)] = " " THEN trim(SubSeq(str, 1, Len(str) - 1))
    ELSE str

\* The value an atom parses to.  M1: {"text": " a ", "rationale": " r"};
\* M2: {"text": "b", "rationale": ""}; B1: {"text": "  ", "rationale": "r"};
\* B2: {"text": "a"}; null.  An absent property has no string.
AtomValue(t) ==
    CASE t = "M1" -> [object |-> TRUE, null |-> FALSE, hasText |-> TRUE,
                      text |-> <<" ", "a", " ">>, hasRationale |-> TRUE,
                      rationale |-> <<" ", "r">>]
      [] t = "M2" -> [object |-> TRUE, null |-> FALSE, hasText |-> TRUE,
                      text |-> <<"b">>, hasRationale |-> TRUE,
                      rationale |-> <<>>]
      [] t = "B1" -> [object |-> TRUE, null |-> FALSE, hasText |-> TRUE,
                      text |-> <<" ", " ">>, hasRationale |-> TRUE,
                      rationale |-> <<"r">>]
      [] t = "B2" -> [object |-> TRUE, null |-> FALSE, hasText |-> TRUE,
                      text |-> <<"a">>, hasRationale |-> FALSE,
                      rationale |-> <<>>]
      [] t = "null" -> [object |-> TRUE, null |-> TRUE, hasText |-> FALSE,
                        text |-> <<>>, hasRationale |-> FALSE,
                        rationale |-> <<>>]
      [] OTHER -> [object |-> TRUE, null |-> FALSE, hasText |-> FALSE,
                   text |-> <<>>, hasRationale |-> FALSE,
                   rationale |-> <<>>]

\* JSON.parse.  A parsed value is its kind ("array", "object", or the atom)
\* and, for an array, the kinds of its items; `rest` is the unread text.
SyntaxError == [ok |-> FALSE, kind |-> "", items |-> <<>>, rest |-> <<>>]

RECURSIVE ParseValue(_), ParseItems(_, _)
ParseValue(ts) ==
    IF ts = <<>> THEN SyntaxError
    ELSE IF Head(ts) \in Atoms
    THEN [ok |-> TRUE, kind |-> Head(ts), items |-> <<>>, rest |-> Tail(ts)]
    ELSE IF Head(ts) = "{k:"
    THEN LET v == ParseValue(Tail(ts))
         IN IF v.ok /\ v.rest # <<>> /\ Head(v.rest) = "}"
            THEN [ok |-> TRUE, kind |-> "object", items |-> <<>>, rest |-> Tail(v.rest)]
            ELSE SyntaxError
    ELSE IF Head(ts) = "["
    THEN IF Tail(ts) # <<>> /\ Head(Tail(ts)) = "]"
         THEN [ok |-> TRUE, kind |-> "array", items |-> <<>>, rest |-> Tail(Tail(ts))]
         ELSE ParseItems(Tail(ts), <<>>)
    ELSE SyntaxError

\* The items of an array after its "[" or after a ",".
ParseItems(ts, acc) ==
    LET v == ParseValue(ts)
    IN IF ~v.ok \/ v.rest = <<>> THEN SyntaxError
       ELSE IF Head(v.rest) = "]"
       THEN [ok |-> TRUE, kind |-> "array", items |-> Append(acc, v.kind),
             rest |-> Tail(v.rest)]
       ELSE IF Head(v.rest) = ","
       THEN ParseItems(Tail(v.rest), Append(acc, v.kind))
       ELSE SyntaxError

\* JSON.parse(text): white space between the tokens is allowed, and the
\* whole text has to be one value.
JSONparse(text) ==
    LET v == ParseValue(SelectSeq(text, LAMBDA t : t \notin Ws))
    IN IF v.ok /\ v.rest = <<>> THEN v ELSE SyntaxError

\* Leading and trailing white space of a text.
RECURSIVE trimStart(_)
trimStart(text) ==
    IF text # <<>> /\ Head(text) \in Ws THEN trimStart(Tail(text)) ELSE text
RECURSIVE trimEnd(_)
trimEnd(text) ==
    IF text # <<>> /\ text[Len(text)] \in Ws
    THEN trimEnd(SubSeq(text, 1, Len(text) - 1)) ELSE text

\* json.replace(/^```(?:json)?\s*\n?/, ""): the fence, the tag json when it
\* follows, and the white space after it.
RemoveOpeningFence(text) ==
    LET afterFence == Tail(text)
        afterTag == IF afterFence # <<>> /\ Head(afterFence) = "json"
                    THEN Tail(afterFence) ELSE afterFence
    IN trimStart(afterTag)

\* json.replace(/\n?\s*```\s*$/, ""): a fence that ends the text, with the
\* white space around it.
RemoveClosingFence(text) ==
    LET body == trimEnd(text)
    IN IF body # <<>> /\ body[Len(body)] = "F"
       THEN trimEnd(SubSeq(body, 1, Len(body) - 1))
       ELSE text

\* Lines 140-146: response.trim(), and the fences stripped when the text
\* starts with one.
StripFences(response) ==
    LET json == trimEnd(trimStart(response))
    IN IF json # <<>> /\ Head(json) = "F"
       THEN RemoveClosingFence(RemoveOpeningFence(json))
       ELSE json

\* json.match(/\[[\s\S]*\]/): the text from the first "[" to the last "]",
\* or no match.
ArrayMatch(json) ==
    LET opens == {i \in 1..Len(json) : json[i] = "["}
        closes == {i \in 1..Len(json) : json[i] = "]"}
    IN IF opens # {} /\ \E j \in closes : j > Min(opens)
       THEN [found |-> TRUE, text |-> SubSeq(json, Min(opens), Max(closes))]
       ELSE [found |-> FALSE, text |-> <<>>]

\* Lines 148-163: `parsed`, or the early return of the empty list.
Parsed(json) ==
    LET direct == JSONparse(json)
        match == ArrayMatch(json)
    IN IF direct.ok THEN direct
       ELSE IF match.found THEN JSONparse(match.text)
       ELSE SyntaxError

\* Accepted, without the test of the trimmed text.
AcceptedBlank(kind) ==
    /\ kind \in Atoms
    /\ AtomValue(kind).hasText
    /\ AtomValue(kind).hasRationale

\* Lines 169-175: the test an item has to pass.
Accepted(kind) ==
    /\ kind \in Atoms
    /\ AtomValue(kind).object
    /\ ~AtomValue(kind).null
    /\ AtomValue(kind).hasText
    /\ AtomValue(kind).hasRationale
    /\ Len(trim(AtomValue(kind).text)) > 0

\* Lines 167-181: the loop over the items of the parsed array.
RECURSIVE Memories(_)
Memories(items) ==
    IF items = <<>> THEN <<>>
    ELSE IF Accepted(Head(items))
    THEN <<[text |-> trim(AtomValue(Head(items)).text),
            rationale |-> trim(AtomValue(Head(items)).rationale)]>>
         \o Memories(Tail(items))
    ELSE Memories(Tail(items))

\* parseResponse without the try blocks: a failed parse is thrown.
parseResponseThrows(response) ==
    LET parsed == Parsed(StripFences(response))
    IN IF ~parsed.ok THEN [status |-> "SyntaxError", memories |-> <<>>]
       ELSE IF parsed.kind # "array" THEN [status |-> "ok", memories |-> <<>>]
       ELSE [status |-> "ok", memories |-> Memories(parsed.items)]

\* parseResponse(response): ExtractedMemory[].
parseResponse(response) ==
    LET parsed == Parsed(StripFences(response))
    IN IF ~parsed.ok THEN [status |-> "ok", memories |-> <<>>]
       ELSE IF parsed.kind # "array" THEN [status |-> "ok", memories |-> <<>>]
       ELSE [status |-> "ok", memories |-> Memories(parsed.items)]

\* Any text of n tokens at most.
RECURSIVE TextsUpTo(_)
TextsUpTo(n) ==
    IF n = 0 THEN {<<>>}
    ELSE LET shorter == TextsUpTo(n - 1)
         IN shorter \cup {Append(t, x) : t \in shorter, x \in CoreTokens}

\* The text of an array of n items at most; an item is an atom, an empty
\* array or an object.
ItemTexts == {<<a>> : a \in Atoms} \cup {<<"[", "]">>, <<"{k:", "M1", "}">>}
RECURSIVE ItemLists(_)
ItemLists(n) ==
    IF n = 0 THEN {<<>>}
    ELSE LET shorter == ItemLists(n - 1)
         IN shorter \cup {t \o (IF t = <<>> THEN <<>> ELSE <<",">>) \o x :
                            t \in shorter, x \in ItemTexts}
ArrayTexts == {<<"[">> \o t \o <<"]">> : t \in ItemLists(MaxItems)}

\* The replies of `complete`.  The core is any text of MaxCore tokens at
\* most, or an array of MaxItems items at most, or an object that holds such
\* an array.  The reply is the core as it is, or wrapped: in white space; in
\* fences without a tag, with the tag json or with the tag js; in prose; or
\* in prose that holds brackets after the core.
Cores ==
    TextsUpTo(MaxCore) \cup ArrayTexts
    \cup {<<"{k:">> \o t \o <<"}">> : t \in ArrayTexts}
Fences == {"fence", "fenceJson", "fenceJs"}
Wraps == {"plain", "padded", "prose", "proseBrackets"} \cup Fences
Replies == [wrap : Wraps, core : Cores]

Build(r) ==
    CASE r.wrap = "plain" -> r.core
      [] r.wrap = "padded" -> <<"nl">> \o r.core \o <<"nl">>
      [] r.wrap = "fence" -> <<"F", "nl">> \o r.core \o <<"nl", "F">>
      [] r.wrap = "fenceJson" -> <<"F", "json", "nl">> \o r.core \o <<"nl", "F">>
      [] r.wrap = "fenceJs" -> <<"F", "js", "nl">> \o r.core \o <<"nl", "F">>
      [] r.wrap = "prose" -> <<"w", "nl">> \o r.core \o <<"nl", "w">>
      [] r.wrap = "proseBrackets" -> <<"w", "nl">> \o r.core
                                     \o <<"nl", "w", "[", "w", "]">>

NoReply == [wrap |-> "plain", core |-> <<>>]
NoExtracted == [status |-> "none", memories |-> <<>>]

\* options?.maxMemories ?? 20
DefaultMaxMemories == 20
MaxMemoriesOf(option) == IF option = <<>> THEN DefaultMaxMemories ELSE option[1]

ExtractorInit ==
    /\ xpc = "idle"
    /\ messages = 0
    /\ maxMemories = DefaultMaxMemories
    /\ completeCalls = 0
    /\ reply = NoReply
    /\ extracted = NoExtracted

\* extractMemories without its first line: complete is invoked whatever the
\* number of messages.
ExtractMemoriesAlwaysCompletes(n) ==
    /\ xpc = "idle"
    /\ messages' = n
    /\ \E option \in MaxMemoriesOptions : maxMemories' = MaxMemoriesOf(option)
    /\ xpc' = "awaitComplete"
    /\ completeCalls' = completeCalls + 1
    /\ UNCHANGED <<extracted, reply>>
    /\ UNCHANGED outsideExtractor

\* extractMemories(messages, complete) up to `await complete(...)`: with no
\* message it returns the empty list, else it invokes complete.
ExtractMemories(n) ==
    /\ xpc = "idle"
    /\ messages' = n
    /\ \E option \in MaxMemoriesOptions : maxMemories' = MaxMemoriesOf(option)
    /\ IF n = 0
       THEN /\ xpc' = "returned"
            /\ extracted' = [status |-> "ok", memories |-> <<>>]
            /\ UNCHANGED completeCalls
       ELSE /\ xpc' = "awaitComplete"
            /\ completeCalls' = completeCalls + 1
            /\ UNCHANGED extracted
    /\ UNCHANGED reply
    /\ UNCHANGED outsideExtractor

\* `complete` resolves with a reply r: return parseResponse(response).
CompleteResolves ==
    /\ xpc = "awaitComplete"
    /\ \E r \in Replies :
          /\ reply' = r
          /\ extracted' = parseResponse(Build(r))
    /\ xpc' = IF extracted'.status = "ok" THEN "returned" ELSE "rejected"
    /\ UNCHANGED <<messages, completeCalls, maxMemories>>
    /\ UNCHANGED outsideExtractor

\* `complete` rejects, and so does extractMemories.
CompleteRejects ==
    /\ xpc = "awaitComplete"
    /\ xpc' = "rejected"
    /\ extracted' = [status |-> "complete failed", memories |-> <<>>]
    /\ UNCHANGED <<messages, completeCalls, reply, maxMemories>>
    /\ UNCHANGED outsideExtractor

\* The caller has the outcome; the next call starts afresh.
ExtractorReturn ==
    /\ xpc \in {"returned", "rejected"}
    /\ xpc' = "idle"
    /\ messages' = 0
    /\ completeCalls' = 0
    /\ reply' = NoReply
    /\ maxMemories' = DefaultMaxMemories
    /\ extracted' = NoExtracted
    /\ UNCHANGED outsideExtractor

ExtractorNext ==
    \/ \E n \in 0..MaxMessages : ExtractMemories(n)
    \/ CompleteResolves
    \/ CompleteRejects
    \/ ExtractorReturn

\* ------------------------------------------------- the signature extractor
\* A path is a sequence of characters.
PathChars == {".", "/", "t", "T", "s", "S", "x"}

\* String.prototype.toLowerCase(), on the letters of the model.
LowerChar(ch) ==
    CASE ch = "T" -> "t"
      [] ch = "S" -> "s"
      [] ch = "X" -> "x"
      [] OTHER -> ch
toLowerCase(str) == [i \in 1..Len(str) |-> LowerChar(str[i])]

\* EXTENSION_MAP: the extensions and their language keys.
EXTENSION_MAP ==
    {[ext |-> <<".", "t", "s">>, lang |-> "typescript"],
     [ext |-> <<".", "t", "s", "x">>, lang |-> "tsx"],
     [ext |-> <<".", "j", "s">>, lang |-> "javascript"],
     [ext |-> <<".", "j", "s", "x">>, lang |-> "javascript"],
     [ext |-> <<".", "m", "j", "s">>, lang |-> "javascript"],
     [ext |-> <<".", "c", "j", "s">>, lang |-> "javascript"],
     [ext |-> <<".", "p", "y">>, lang |-> "python"],
     [ext |-> <<".", "r", "b">>, lang |-> "ruby"],
     [ext |-> <<".", "g", "o">>, lang |-> "go"],
     [ext |-> <<".", "r", "s">>, lang |-> "rust"],
     [ext |-> <<".", "c">>, lang |-> "c"],
     [ext |-> <<".", "h">>, lang |-> "c"],
     [ext |-> <<".", "c", "p", "p">>, lang |-> "cpp"],
     [ext |-> <<".", "h", "p", "p">>, lang |-> "cpp"],
     [ext |-> <<".", "c", "c">>, lang |-> "cpp"],
     [ext |-> <<".", "c", "x", "x">>, lang |-> "cpp"],
     [ext |-> <<".", "j", "a", "v", "a">>, lang |-> "java"],
     [ext |-> <<".", "s", "w", "i", "f", "t">>, lang |-> "swift"],
     [ext |-> <<".", "d", "a", "r", "t">>, lang |-> "dart"],
     [ext |-> <<".", "p", "h", "p">>, lang |-> "php"],
     [ext |-> <<".", "c", "s">>, lang |-> "csharp"]}

\* EXTENSION_MAP[ext] ?? null
Lookup(ext) ==
    IF \E e \in EXTENSION_MAP : e.ext = ext
    THEN (CHOOSE e \in EXTENSION_MAP : e.ext = ext).lang
    ELSE "null"

\* filePath.lastIndexOf("."): 0 stands for -1, positions count from 1.
lastIndexOf(str, ch) ==
    IF \E i \in 1..Len(str) : str[i] = ch
    THEN Max({i \in 1..Len(str) : str[i] = ch})
    ELSE 0

\* detectLanguage that compares the extension as it is written.
detectLanguageCaseSensitive(filePath) ==
    LET dotIndex == lastIndexOf(filePath, ".")
    IN IF dotIndex = 0 THEN "null"
       ELSE Lookup(SubSeq(filePath, dotIndex, Len(filePath)))

\* detectLanguage(filePath): the language key, or "null".
detectLanguage(filePath) ==
    LET dotIndex == lastIndexOf(filePath, ".")
    IN IF dotIndex = 0 THEN "null"
       ELSE Lookup(toLowerCase(SubSeq(filePath, dotIndex, Len(filePath))))

\* Lines 400-409 without the `seen` set: every non-empty text is pushed.
RECURSIVE NamesNoDedup(_, _)
NamesNoDedup(captures, names) ==
    IF captures = <<>> THEN names
    ELSE LET text == trim(Head(captures))
         IN IF text # <<>>
            THEN NamesNoDedup(Tail(captures), Append(names, text))
            ELSE NamesNoDedup(Tail(captures), names)

\* Lines 400-409: the names pushed by the loop over the captures; `seen` holds
\* the texts of `names`.
RECURSIVE Names(_, _)
Names(captures, names) ==
    IF captures = <<>> THEN names
    ELSE LET text == trim(Head(captures))
         IN IF text # <<>> /\ \A i \in 1..Len(names) : names[i] # text
            THEN Names(Tail(captures), Append(names, text))
            ELSE Names(Tail(captures), names)

\* names.join(" | ")
RECURSIVE Join(_)
Join(names) ==
    IF names = <<>> THEN <<>>
    ELSE IF Len(names) = 1 THEN Head(names)
    ELSE Head(names) \o <<" ", "|", " ">> \o Join(Tail(names))

\* The result of extractSignature: null, or a string.
Null == [null |-> TRUE, text |-> <<>>]
String(text) == [null |-> FALSE, text |-> text]

\* Lines 414-416 without the test of names.length: always a string.
SignatureNeverNull(filePath, names) ==
    String(filePath \o <<" ", "|", " ">> \o Join(names))

\* Lines 414-416: null without a name, else `${filePath} | ${names.join(" | ")}`.
Signature(filePath, names) ==
    IF Len(names) = 0 THEN Null
    ELSE String(filePath \o <<" ", "|", " ">> \o Join(names))

\* The inputs.  Paths for detectLanguage: every path of MaxPath characters
\* at most.  Paths for extractSignature: a TypeScript file, the same with an
\* upper-case extension, and a file without extension.  The text of a captured
\* node: a name, a name in white space, white space, the empty text.
RECURSIVE PathsUpTo(_)
PathsUpTo(n) ==
    IF n = 0 THEN {<<>>}
    ELSE LET shorter == PathsUpTo(n - 1)
         IN shorter \cup {Append(p, ch) : p \in shorter, ch \in PathChars}
Paths == PathsUpTo(MaxPath)
SourcePaths == {<<"x", ".", "t", "s">>, <<"x", ".", "T", "S">>, <<"x">>}
CaptureTexts == {<<"A">>, <<"B">>, <<" ", "A">>, <<" ">>, <<>>}
RECURSIVE CapturesUpTo(_)
CapturesUpTo(n) ==
    IF n = 0 THEN {<<>>}
    ELSE LET shorter == CapturesUpTo(n - 1)
         IN shorter \cup {Append(c, t) : c \in shorter, t \in CaptureTexts}
CaptureLists == CapturesUpTo(MaxCaptures)

NoSig == [op |-> "none", filePath |-> <<>>, captures |-> <<>>,
          language |-> "null", result |-> Null]

SignatureInit ==
    /\ parserInitialized = FALSE
    /\ loadedLanguages = {}
    /\ compiledQueries = {}
    /\ sig = NoSig

\* A call of detectLanguage(filePath).
DetectLanguage ==
    /\ sig.op = "none"
    /\ \E filePath \in Paths :
          sig' = [NoSig EXCEPT !.op = "detectLanguage", !.filePath = filePath,
                               !.language = detectLanguage(filePath)]
    /\ UNCHANGED <<parserInitialized, loadedLanguages, compiledQueries>>
    /\ UNCHANGED outsideSignature

\* A call of extractSignature(filePath, content), to its end.  Without a
\* language it returns null at once.  Else the parser is initialised and the
\* grammar loaded, unless they are already; parser.parse(content) gives a
\* tree, or null; the query is compiled unless cached; `captures` are the
\* texts of the nodes that query.captures(tree.rootNode) yields.
ExtractSignature ==
    /\ sig.op = "none"
    /\ \E filePath \in SourcePaths, tree \in BOOLEAN, captures \in CaptureLists :
          LET langKey == detectLanguage(filePath)
          IN IF langKey = "null"
             THEN /\ tree /\ captures = <<>>
                  /\ sig' = [NoSig EXCEPT !.op = "extractSignature",
                                          !.filePath = filePath]
                  /\ UNCHANGED <<parserInitialized, loadedLanguages, compiledQueries>>
             ELSE /\ parserInitialized' = TRUE
                  /\ loadedLanguages' = loadedLanguages \cup {langKey}
                  /\ IF ~tree
                     THEN /\ captures = <<>>
                          /\ sig' = [NoSig EXCEPT !.op = "extractSignature",
                                                  !.filePath = filePath,
                                                  !.language = langKey]
                          /\ UNCHANGED compiledQueries
                     ELSE /\ compiledQueries' = compiledQueries \cup {langKey}
                          /\ sig' = [op |-> "extractSignature",
                                     filePath |-> filePath,
                                     captures |-> captures,
                                     language |-> langKey,
                                     result |-> Signature(filePath, Names(captures, <<>>))]
    /\ UNCHANGED outsideSignature

\* The caller has the result.
SignatureReturn ==
    /\ sig.op # "none"
    /\ sig' = NoSig
    /\ UNCHANGED <<parserInitialized, loadedLanguages, compiledQueries>>
    /\ UNCHANGED outsideSignature

SignatureNext ==
    \/ DetectLanguage
    \/ ExtractSignature
    \/ SignatureReturn

\* ------------------------------------- syntax trees, queries and captures
\* A syntax tree is the sequence of its nodes in source order; a node has a
\* type, a parent (0 for the root), the field it fills in its parent and its
\* text, a sequence of characters where "nl" is the line break.  A node's id
\* is its position.
Node(type, parent, field, text) ==
    [type |-> type, parent |-> parent, field |-> field, text |-> text]

\* A rule of a query, outermost node first; the last step is the node
\* tagged @name.  A step names a node type and, where the rule has one, the
\* field the node fills.
Step(type, field) == [type |-> type, field |-> field]
Named(decl, id) == <<Step(decl, ""), Step(id, "name")>>
Exported(decl, id) ==
    <<Step("export_statement", ""), Step(decl, "declaration"), Step(id, "name")>>

\* LANGUAGES[langKey].query, for the languages whose sources the model parses.
LANGUAGES ==
    [typescript |->
        <<Named("class_declaration", "type_identifier"),
          Named("abstract_class_declaration", "type_identifier"),
          Named("interface_declaration", "type_identifier"),
          Named("type_alias_declaration", "type_identifier"),
          Named("function_declaration", "identifier"),
          Named("enum_declaration", "identifier"),
          Exported("class_declaration", "type_identifier"),
          Exported("abstract_class_declaration", "type_identifier"),
          Exported("interface_declaration", "type_identifier"),
          Exported("type_alias_declaration", "type_identifier"),
          Exported("function_declaration", "identifier"),
          Exported("enum_declaration", "identifier"),
          <<Step("export_statement", ""), Step("lexical_declaration", "declaration"),
            Step("variable_declarator", ""), Step("identifier", "name")>>,
          <<Step("lexical_declaration", ""), Step("variable_declarator", ""),
            Step("identifier", "name")>> >>,
     python |->
        <<Named("class_definition", "identifier"),
          Named("function_definition", "identifier")>>,
     ruby |->
        <<Named("module", "constant"),
          Named("class", "constant"),
          Named("method", "identifier"),
          Named("singleton_method", "identifier")>>]
Languages == DOMAIN LANGUAGES

\* The k-th ancestor of node n: n itself for k = 0, and 0 above the root.
RECURSIVE Ancestor(_, _, _)
Ancestor(tree, n, k) ==
    IF k = 0 \/ n = 0 THEN n ELSE Ancestor(tree, tree[n].parent, k - 1)

\* Node n is the @name node of a match of `rule`: the rule's steps are the
\* types, and fields, of n and its ancestors.  A match starts at any depth.
Matches(tree, n, rule) ==
    \A k \in 0..(Len(rule) - 1) :
        LET a == Ancestor(tree, n, k)
            step == rule[Len(rule) - k]
        IN /\ a # 0
           /\ tree[a].type = step.type
           /\ step.field = "" \/ tree[a].field = step.field

\* query.captures(tree.rootNode): the captured nodes in source order, a node
\* that several rules capture once per rule.
RECURSIVE CapturesOf(_, _, _, _)
CapturesOf(tree, query, n, i) ==
    IF i > Len(query) THEN <<>>
    ELSE IF Matches(tree, n, query[i])
    THEN <<n>> \o CapturesOf(tree, query, n, i + 1)
    ELSE CapturesOf(tree, query, n, i + 1)
RECURSIVE CapturesFrom(_, _, _)
CapturesFrom(tree, query, n) ==
    IF n > Len(tree) THEN <<>>
    ELSE CapturesOf(tree, query, n, 1) \o CapturesFrom(tree, query, n + 1)
QueryCaptures(tree, query) == CapturesFrom(tree, query, 1)

\* String.prototype.includes: the node types of the model's trees that
\* contain each word.
Containing ==
    [declaration |-> {"class_declaration", "lexical_declaration", "function_declaration"},
     definition |-> {"class_definition", "function_definition", "method_definition"},
     item |-> {},
     specifier |-> {}]
includes(type, word) == type \in Containing[word]

\* findDeclarationAncestor(node), from `current` on.
RECURSIVE WalkUp(_, _)
WalkUp(tree, current) ==
    IF tree[current].parent = 0 THEN current
    ELSE LET parentType == tree[tree[current].parent].type
         IN IF \/ includes(parentType, "declaration")
               \/ includes(parentType, "definition")
               \/ includes(parentType, "item")
               \/ includes(parentType, "specifier")
               \/ parentType \in {"export_statement", "impl_item", "type_declaration",
                                  "program", "module"}
            THEN IF parentType \in {"program", "module"}
                 THEN current
                 ELSE tree[current].parent
            ELSE WalkUp(tree, tree[current].parent)
findDeclarationAncestor(tree, node) == WalkUp(tree, node)

\* text.split("\n")[0]
RECURSIVE FirstLine(_)
FirstLine(text) ==
    IF text = <<>> \/ Head(text) = "nl" THEN <<>>
    ELSE <<Head(text)>> \o FirstLine(Tail(text))

\* Lines 446-460: the lines pushed by the loop over the captures; `seen` holds
\* the ids of the declaration nodes met.
RECURSIVE Lines(_, _, _, _)
Lines(tree, caps, seen, lines) ==
    IF caps = <<>> THEN lines
    ELSE LET declNode == findDeclarationAncestor(tree, Head(caps))
             firstLine == trim(FirstLine(tree[declNode].text))
         IN IF declNode \in seen THEN Lines(tree, Tail(caps), seen, lines)
            ELSE IF firstLine # <<>>
            THEN Lines(tree, Tail(caps), seen \cup {declNode}, Append(lines, firstLine))
            ELSE Lines(tree, Tail(caps), seen \cup {declNode}, lines)

\* The texts of the captured nodes.
NodeTexts(tree, caps) == [i \in 1..Len(caps) |-> tree[caps[i]].text]

\* The sources.  A TypeScript file with an exported class, a declaration of
\* two constants and a function that declares a constant:
\*     export class A {
\*      m() {}
\*     }
\*     const x=1,y=2
\*     function f() {
\*      const z=3
\*     }
ClassA == <<"class", " ", "A", " ", "{", "nl", " ", "m", "() {}", "nl", "}">>
ConstXY == <<"const", " ", "x", "=1,", "y", "=2">>
ConstZ == <<"const", " ", "z", "=3">>
FunctionF == <<"function", " ", "f", "() {", "nl", " ">> \o ConstZ \o <<"nl", "}">>
TypeScriptTree ==
    <<Node("program", 0, "",
           <<"export", " ">> \o ClassA \o <<"nl">> \o ConstXY \o <<"nl">> \o FunctionF),
      Node("export_statement", 1, "", <<"export", " ">> \o ClassA),
      Node("class_declaration", 2, "declaration", ClassA),
      Node("type_identifier", 3, "name", <<"A">>),
      Node("class_body", 3, "body", <<"{", "nl", " ", "m", "() {}", "nl", "}">>),
      Node("method_definition", 5, "", <<"m", "() {}">>),
      Node("property_identifier", 6, "name", <<"m">>),
      Node("lexical_declaration", 1, "", ConstXY),
      Node("variable_declarator", 8, "", <<"x", "=1">>),
      Node("identifier", 9, "name", <<"x">>),
      Node("variable_declarator", 8, "", <<"y", "=2">>),
      Node("identifier", 11, "name", <<"y">>),
      Node("function_declaration", 1, "", FunctionF),
      Node("identifier", 13, "name", <<"f">>),
      Node("statement_block", 13, "body",
           <<"{", "nl", " ">> \o ConstZ \o <<"nl", "}">>),
      Node("lexical_declaration", 15, "", ConstZ),
      Node("variable_declarator", 16, "", <<"z", "=3">>),
      Node("identifier", 17, "name", <<"z">>)>>

\* A Python file with a class that has a method, and a function:
\*     class A:
\*      def m(self): pass
\*     def f(): pass
DefM == <<"def", " ", "m", "(self): pass">>
DefF == <<"def", " ", "f", "(): pass">>
PyClassA == <<"class", " ", "A", ":", "nl", " ">> \o DefM
PythonTree ==
    <<Node("module", 0, "", PyClassA \o <<"nl">> \o DefF),
      Node("class_definition", 1, "", PyClassA),
      Node("identifier", 2, "name", <<"A">>),
      Node("block", 2, "body", DefM),
      Node("function_definition", 4, "", DefM),
      Node("identifier", 5, "name", <<"m">>),
      Node("function_definition", 1, "", DefF),
      Node("identifier", 7, "name", <<"f">>)>>

\* A Ruby file with a class in a module, and a method:
\*     module M
\*      class A
\*      end
\*     end
\*     def f
\*     end
RbClassA == <<"class", " ", "A", "nl", " ", "end">>
RbModuleM == <<"module", " ", "M", "nl", " ">> \o RbClassA \o <<"nl", "end">>
RbDefF == <<"def", " ", "f", "nl", "end">>
RubyTree ==
    <<Node("program", 0, "", RbModuleM \o <<"nl">> \o RbDefF),
      Node("module", 1, "", RbModuleM),
      Node("constant", 2, "name", <<"M">>),
      Node("body_statement", 2, "body", RbClassA),
      Node("class", 4, "", RbClassA),
      Node("constant", 5, "name", <<"A">>),
      Node("method", 1, "", RbDefF),
      Node("identifier", 7, "name", <<"f">>)>>

\* The root node of a language's tree.
RootType(langKey) == IF langKey = "python" THEN "module" ELSE "program"

\* parser.parse(content) with the grammar of langKey.  The contents: "" the
\* empty text, "comment" a text with a comment and no declaration, "source"
\* the file of the language above.
Contents == {"", "comment", "source"}
Parse(langKey, content) ==
    CASE content = "" -> <<Node(RootType(langKey), 0, "", <<>>)>>
      [] content = "comment" ->
            <<Node(RootType(langKey), 0, "", <<"rem">>),
              Node("comment", 1, "", <<"rem">>)>>
      [] content = "source" /\ langKey = "typescript" -> TypeScriptTree
      [] content = "source" /\ langKey = "python" -> PythonTree
      [] content = "source" /\ langKey = "ruby" -> RubyTree

\* --------------------------------------- the signature extractor, its calls
\* The callers call extractSignature and extractSignatureLines on these
\* sources; a call suspends at its awaits, where the other caller may run.
Functions == {"extractSignature", "extractSignatureLines"}
TsPath == <<"x", ".", "t", "s">>
PyPath == <<"x", ".", "p", "y">>
RbPath == <<"x", ".", "r", "b">>
MdPath == <<"x", ".", "m", "d">>
Sources ==
    {[filePath |-> TsPath, content |-> c] : c \in Contents}
    \cup {[filePath |-> p, content |-> "source"] : p \in {PyPath, RbPath, MdPath}}
\* The sources of the calls that run concurrently.
ConcurrentSources ==
    {[filePath |-> p, content |-> "source"] : p \in {TsPath, PyPath}}

NoExtraction == [pc |-> "idle", fn |-> "", filePath |-> <<>>, content |-> "",
                 langKey |-> "null", reinit |-> FALSE, tree |-> FALSE,
                 result |-> Null]
Zero == [l \in Languages |-> 0]

CallsInit ==
    /\ scall = [c \in Callers |-> NoExtraction]
    /\ exitHandlerRegistered = FALSE
    /\ inits = 0
    /\ loads = Zero
    /\ compiles = Zero
    /\ undeleted = Zero

\* Lines 400-416 and 446-467: the result built from the captures `caps`.
FromCaptures(fn, filePath, tree, caps) ==
    IF fn = "extractSignature"
    THEN Signature(filePath, Names(NodeTexts(tree, caps), <<>>))
    ELSE Signature(filePath, Lines(tree, caps, {}, <<>>))

\* Lines 396-416 and 443-467: the query runs on the tree's root node, and the
\* result is built from its captures.
Result(fn, filePath, tree) ==
    FromCaptures(fn, filePath, tree,
                 QueryCaptures(tree, LANGUAGES[detectLanguage(filePath)]))

\* A call of extractSignature or extractSignatureLines on one of `sources`,
\* to its first await.
\* Without a language it returns null.  Else ensureInit calls Parser.init()
\* unless parserInitialized, and the call waits for ensureInit.
Extract(c, sources) ==
    /\ scall[c].pc = "idle"
    /\ \E fn \in Functions, source \in sources :
          LET langKey == detectLanguage(source.filePath)
              this == [NoExtraction EXCEPT !.fn = fn, !.filePath = source.filePath,
                                           !.content = source.content,
                                           !.langKey = langKey]
          IN IF langKey = "null"
             THEN /\ scall' = [scall EXCEPT ![c] = [this EXCEPT !.pc = "done"]]
                  /\ UNCHANGED inits
             ELSE IF ~parserInitialized
             THEN /\ scall' = [scall EXCEPT ![c] =
                          [this EXCEPT !.pc = "awaitInit",
                                       !.reinit = exitHandlerRegistered]]
                  /\ inits' = inits + 1
             ELSE /\ scall' = [scall EXCEPT ![c] = [this EXCEPT !.pc = "initialized"]]
                  /\ UNCHANGED inits
    /\ UNCHANGED <<parserInitialized, loadedLanguages, compiledQueries,
                   exitHandlerRegistered, loads, compiles, undeleted>>
    /\ UNCHANGED outsideCalls

\* Parser.init() resolves: ensureInit sets the flag and registers the exit
\* handler.
InitResolves(c) ==
    /\ scall[c].pc = "awaitInit"
    /\ parserInitialized' = TRUE
    /\ exitHandlerRegistered' = TRUE
    /\ scall' = [scall EXCEPT ![c].pc = "initialized"]
    /\ UNCHANGED <<loadedLanguages, compiledQueries, inits, loads, compiles, undeleted>>
    /\ UNCHANGED outsideCalls

\* The call resumes after ensureInit: getLanguage returns the cached grammar,
\* or calls Language.load and waits for it.
GetLanguage(c) ==
    /\ scall[c].pc = "initialized"
    /\ IF scall[c].langKey \in loadedLanguages
       THEN /\ scall' = [scall EXCEPT ![c].pc = "loaded"]
            /\ UNCHANGED loads
       ELSE /\ scall' = [scall EXCEPT ![c].pc = "awaitLoad"]
            /\ loads' = [loads EXCEPT ![scall[c].langKey] = @ + 1]
    /\ UNCHANGED <<parserInitialized, loadedLanguages, compiledQueries,
                   exitHandlerRegistered, inits, compiles, undeleted>>
    /\ UNCHANGED outsideCalls

\* Language.load resolves: getLanguage caches the grammar.
LoadResolves(c) ==
    /\ scall[c].pc = "awaitLoad"
    /\ loadedLanguages' = loadedLanguages \cup {scall[c].langKey}
    /\ scall' = [scall EXCEPT ![c].pc = "loaded"]
    /\ UNCHANGED <<parserInitialized, compiledQueries, exitHandlerRegistered,
                   inits, loads, compiles, undeleted>>
    /\ UNCHANGED outsideCalls

\* The call resumes with the grammar and runs to its end: parser.parse gives
\* a tree, or null; getQuery compiles the query unless it is cached; the
\* result is built from the captures.
Finish(c) ==
    /\ scall[c].pc = "loaded"
    /\ \E tree \in BOOLEAN :
          LET langKey == scall[c].langKey
          IN IF ~tree
             THEN /\ scall' = [scall EXCEPT ![c].pc = "done"]
                  /\ UNCHANGED <<compiledQueries, compiles, undeleted>>
             ELSE /\ scall' = [scall EXCEPT ![c] =
                          [scall[c] EXCEPT
                              !.pc = "done", !.tree = TRUE,
                              !.result = Result(scall[c].fn, scall[c].filePath,
                                                Parse(langKey, scall[c].content))]]
                  /\ IF langKey \in compiledQueries
                     THEN UNCHANGED <<compiledQueries, compiles, undeleted>>
                     ELSE /\ compiledQueries' = compiledQueries \cup {langKey}
                          /\ compiles' = [compiles EXCEPT ![langKey] = @ + 1]
                          /\ undeleted' = [undeleted EXCEPT ![langKey] = @ + 1]
    /\ UNCHANGED <<parserInitialized, loadedLanguages, exitHandlerRegistered,
                   inits, loads>>
    /\ UNCHANGED outsideCalls

\* The caller has the result.
ExtractReturn(c) ==
    /\ scall[c].pc = "done"
    /\ scall' = [scall EXCEPT ![c] = NoExtraction]
    /\ UNCHANGED <<parserInitialized, loadedLanguages, compiledQueries,
                   exitHandlerRegistered, inits, loads, compiles, undeleted>>
    /\ UNCHANGED outsideCalls

\* The module state that disposeSignatureExtractor works on.
Caches ==
    [compiledQueries |-> compiledQueries, loadedLanguages |-> loadedLanguages,
     parserInitialized |-> parserInitialized, undeleted |-> undeleted]

\* disposeSignatureExtractor that leaves the compiled queries alone.
disposeKeepsQueries(s) ==
    [s EXCEPT !.loadedLanguages = {}, !.parserInitialized = FALSE]

\* disposeSignatureExtractor(): query.delete() for every cached query, both
\* maps cleared, the flag reset.
disposeSignatureExtractor(s) ==
    [compiledQueries |-> {},
     loadedLanguages |-> {},
     parserInitialized |-> FALSE,
     undeleted |-> [l \in Languages |->
                       IF l \in s.compiledQueries THEN s.undeleted[l] - 1
                       ELSE s.undeleted[l]]]

\* A call of disposeSignatureExtractor, between the steps of the calls.
DisposeSignatureExtractor ==
    /\ LET s == disposeSignatureExtractor(Caches)
       IN /\ compiledQueries' = s.compiledQueries
          /\ loadedLanguages' = s.loadedLanguages
          /\ parserInitialized' = s.parserInitialized
          /\ undeleted' = s.undeleted
    /\ inits' = 0
    /\ loads' = Zero
    /\ compiles' = Zero
    /\ UNCHANGED <<scall, exitHandlerRegistered>>
    /\ UNCHANGED outsideCalls

\* One caller: each call ends before the next begins.
ExtractNext ==
    \/ Extract("a", Sources)
    \/ InitResolves("a")
    \/ GetLanguage("a")
    \/ LoadResolves("a")
    \/ Finish("a")
    \/ ExtractReturn("a")
    \/ DisposeSignatureExtractor

\* Callers whose calls interleave at the awaits.
CallsNext ==
    \/ \E c \in Callers : Extract(c, ConcurrentSources)
    \/ \E c \in Callers : InitResolves(c)
    \/ \E c \in Callers : GetLanguage(c)
    \/ \E c \in Callers : LoadResolves(c)
    \/ \E c \in Callers : Finish(c)
    \/ \E c \in Callers : ExtractReturn(c)
    \/ DisposeSignatureExtractor

\* ------------------------------------------- the extraction worker's run
\* The memories extracted from a session, as the embeddings the embedder
\* gives their texts: every sequence of MaxCandidates embeddings at most.
RECURSIVE CandidatesUpTo(_)
CandidatesUpTo(n) ==
    IF n = 0 THEN {<<>>}
    ELSE LET shorter == CandidatesUpTo(n - 1)
         IN shorter \cup {Append(c, v) : c \in shorter, v \in GoodVecs}
Candidates == CandidatesUpTo(MaxCandidates)

NoRun == [pc |-> "idle", extracted |-> <<>>, dedupThreshold |-> 0, i |-> 1,
          stored |-> 0, skipped |-> 0]

RunInit == run = NoRun

\* Lines 83-84 without the search: no candidate has a duplicate.
DupesNever(d, vec, dedupThreshold) == <<>>

\* Lines 83-84: the duplicates of a candidate, searched in a store that is
\* not empty.
Dupes(d, vec, dedupThreshold) ==
    IF count(d) > 0 THEN search(d, vec, dedupThreshold, 1) ELSE <<>>

\* main, to the loop: the payload gives dedupThreshold, extractMemories the
\* candidates; without a candidate the run ends here.
RunStart ==
    /\ run.pc = "idle"
    /\ db.seq < MaxAdds
    /\ \E candidates \in Candidates, dedupThreshold \in Thresholds :
          run' = [NoRun EXCEPT !.pc = IF Len(candidates) = 0 THEN "ended" ELSE "running",
                               !.extracted = candidates,
                               !.dedupThreshold = dedupThreshold]
    /\ UNCHANGED db
    /\ UNCHANGED outsideRun

\* One turn of the loop: the candidate is embedded, and skipped when the
\* search finds a duplicate, stored otherwise.
RunStep ==
    /\ run.pc = "running"
    /\ run.i <= Len(run.extracted)
    /\ LET vec == run.extracted[run.i]
           dupes == Dupes(db, vec, run.dedupThreshold)
       IN IF Len(dupes) > 0
          THEN /\ run' = [run EXCEPT !.skipped = @ + 1, !.i = @ + 1]
               /\ UNCHANGED db
          ELSE /\ db' = Transaction(db, AddBody(db, "t1", now, "s1", vec, "none"), FALSE)
               /\ run' = [run EXCEPT !.stored = @ + 1, !.i = @ + 1]
    /\ UNCHANGED outsideRun

\* The loop is over: the counts are written to stderr and the store closed.
RunEnd ==
    /\ run.pc = "running"
    /\ run.i > Len(run.extracted)
    /\ run' = [run EXCEPT !.pc = "ended"]
    /\ UNCHANGED db
    /\ UNCHANGED outsideRun

\* The worker process exits.
RunExit ==
    /\ run.pc = "ended"
    /\ run' = NoRun
    /\ UNCHANGED db
    /\ UNCHANGED outsideRun

RunNext ==
    \/ RunStart
    \/ RunStep
    \/ RunEnd
    \/ RunExit

\* ------------------------------------------------- the extension instance
\* SIMILARITY_THRESHOLD = 0.3, in units of 1/SimUnit: the similarities of the
\* pool are whole units, and a whole number is >= 0.3 * SimUnit iff it is >= 1.
SIMILARITY_THRESHOLD == 1
MAX_MEMORIES_PER_READ == 5
\* params.limit ?? 10
DefaultSearchLimit == 10

\* The embedding of the one text that memories have.
EmbeddingOfText == Vec(1, Dim)

\* The store the instance finds on disk: empty, or with one memory more
\* than a read may show.
RECURSIVE Stored(_)
Stored(n) ==
    IF n = 0 THEN [memories |-> <<>>, memories_vec |-> <<>>, seq |-> 0]
    ELSE AddBody(Stored(n - 1), "t1", 0, "s1", EmbeddingOfText, "none")
StartStores == {Stored(0), Stored(MAX_MEMORIES_PER_READ + 1)}

\* The vectors the embedder returns for signatures and queries.
QueryVecs == {Vec(1, Dim), Vec(0, Dim)}

\* A tool_result event.  A content item has a type and, when it is a text
\* item, a text: a sequence of parts, the first of them a file content.
Image == [type |-> "image", text |-> <<>>]
Text(text) == [type |-> "text", text |-> text]
ReadEvent ==
    [toolName |-> "read", isError |-> FALSE, path |-> TsPath,
     content |-> <<Image, Text(<<"source">>), Text(<<"source">>)>>]
NoEvent == [toolName |-> "", isError |-> FALSE, path |-> <<>>, content |-> <<>>]
Events ==
    {ReadEvent,
     [ReadEvent EXCEPT !.toolName = "bash"],
     [ReadEvent EXCEPT !.isError = TRUE],
     [ReadEvent EXCEPT !.path = <<>>],
     [ReadEvent EXCEPT !.path = MdPath],
     [ReadEvent EXCEPT !.content = <<Image>>],
     [ReadEvent EXCEPT !.content = <<Text(<<>>), Text(<<"source">>)>>],
     [ReadEvent EXCEPT !.content = <<Text(<<"comment">>)>>]}

\* event.content?.find(c => c.type === "text"): the index of the first text
\* item, 0 when there is none.
FirstText(content) ==
    IF \E i \in 1..Len(content) : content[i].type = "text"
    THEN Min({i \in 1..Len(content) : content[i].type = "text"})
    ELSE 0

\* lines.join("\n")
RECURSIVE JoinLines(_)
JoinLines(lines) ==
    IF lines = <<>> THEN <<>>
    ELSE IF Len(lines) = 1 THEN Head(lines)
    ELSE Head(lines) \o <<"nl">> \o JoinLines(Tail(lines))

\* formatMemoryBlock(matches)
formatMemoryBlock(matches) ==
    <<"nl", "nl", "<memory>", "nl">>
    \o JoinLines([i \in 1..Len(matches) |-> <<"- ", matches[i].memory.text>>])
    \o <<"nl", "</memory>">>

\* event.content.map(...) that appends the block to every item equal to the
\* first text item.
NewContentByValue(content, i, memoryBlock) ==
    [j \in 1..Len(content) |->
        IF content[j] = content[i]
        THEN [content[j] EXCEPT !.text = @ \o memoryBlock]
        ELSE content[j]]

\* event.content.map(c => c === textContent ? {...c, text: c.text +
\* memoryBlock} : c), textContent being item i.
NewContent(content, i, memoryBlock) ==
    [j \in 1..Len(content) |->
        IF j = i
        THEN [content[j] EXCEPT !.text = @ \o memoryBlock]
        ELSE content[j]]

\* What a handler returned: no result (the read result stays as it is), or a
\* new content; threw is set when the handler's promise rejected.
NoResult == [changed |-> FALSE, content |-> <<>>]
NoHandler ==
    [pc |-> "idle", kind |-> "none", event |-> NoEvent, limit |-> 0,
     signature |-> Null, emb |-> 0, result |-> NoResult, threw |-> FALSE]

ExtensionInit ==
    /\ store = "null"
    /\ connection = "none"
    /\ storeInitialized = FALSE
    /\ embedder = 0
    /\ proxies = <<>>
    /\ handler = [h \in Callers |-> NoHandler]
    /\ cleanup = [pc |-> "idle", completed |-> 0, handled |-> 0]
    /\ handled = 0

\* ensureStore(): the outcome and the closure state it leaves.
ensureStore(openFails) ==
    IF store = "open"
    THEN [ok |-> TRUE, store |-> store, connection |-> connection,
          storeInitialized |-> storeInitialized]
    ELSE IF storeInitialized
    THEN [ok |-> FALSE, store |-> store, connection |-> connection,
          storeInitialized |-> storeInitialized]
    ELSE IF openFails
    THEN [ok |-> FALSE, store |-> store, connection |-> connection,
          storeInitialized |-> TRUE]
    ELSE [ok |-> TRUE, store |-> "open", connection |-> "open",
          storeInitialized |-> TRUE]

\* The handler returns: `this` is its record at the return.
Returns(this, result, threw) ==
    [this EXCEPT !.pc = "returned", !.result = result, !.threw = threw]

\* getEmbedder() up to its await: without an embedder it calls
\* createEmbedderProxy(), which makes a new proxy, and waits for it; with one
\* it returns it.  The handler waits for getEmbedder in both cases.
GetEmbedder(h, this) ==
    IF embedder = 0
    THEN /\ proxies' = Append(proxies, "none")
         /\ handler' = [handler EXCEPT ![h] =
                          [this EXCEPT !.pc = "awaitProxy", !.emb = Len(proxies) + 1]]
    ELSE /\ handler' = [handler EXCEPT ![h] =
                          [this EXCEPT !.pc = "awaitGet", !.emb = embedder]]
         /\ UNCHANGED proxies

\* The tool_result handler up to its first await.
ToolResult(h, event, openFails, countFails) ==
    /\ handler[h].pc = "idle"
    /\ handled < MaxHandled
    /\ handled' = handled + 1
    /\ LET this == [NoHandler EXCEPT !.kind = "tool_result", !.event = event]
           i == FirstText(event.content)
           opened == ensureStore(openFails)
       IN IF \/ event.toolName # "read"
             \/ event.isError
             \/ event.path = <<>>
             \/ detectLanguage(event.path) = "null"
             \/ i = 0
             \/ event.content[i].text = <<>>
          THEN /\ ~openFails /\ ~countFails
               /\ handler' = [handler EXCEPT ![h] = Returns(this, NoResult, FALSE)]
               /\ UNCHANGED <<store, connection, storeInitialized>>
          ELSE /\ store' = opened.store
               /\ connection' = opened.connection
               /\ storeInitialized' = opened.storeInitialized
               /\ IF ~opened.ok
                  THEN /\ ~countFails
                       /\ handler' = [handler EXCEPT ![h] = Returns(this, NoResult, FALSE)]
                  ELSE IF countFails
                  THEN handler' = [handler EXCEPT ![h] = Returns(this, NoResult, TRUE)]
                  ELSE IF count(db) = 0
                  THEN handler' = [handler EXCEPT ![h] = Returns(this, NoResult, FALSE)]
                  ELSE handler' = [handler EXCEPT ![h] =
                                     [this EXCEPT !.pc = "awaitSignature"]]
    /\ UNCHANGED <<db, embedder, proxies, cleanup>>
    /\ UNCHANGED <<parserInitialized, loadedLanguages, compiledQueries, undeleted>>
    /\ UNCHANGED outsideExtension

\* extractSignature settles.  When it throws, the catch block logs and the
\* handler returns.  Else the parser is initialised, the grammar loaded and
\* the query compiled; without a signature the handler returns, with one it
\* calls getEmbedder.
SignatureSettles(h, throws) ==
    /\ handler[h].pc = "awaitSignature"
    /\ LET this == handler[h]
           event == this.event
           langKey == detectLanguage(event.path)
           content == event.content[FirstText(event.content)].text[1]
           signature == Result("extractSignature", event.path, Parse(langKey, content))
       IN IF throws
          THEN /\ handler' = [handler EXCEPT ![h] = Returns(this, NoResult, FALSE)]
               /\ UNCHANGED <<parserInitialized, loadedLanguages, compiledQueries,
                              undeleted, proxies>>
          ELSE /\ parserInitialized' = TRUE
               /\ loadedLanguages' = loadedLanguages \cup {langKey}
               /\ compiledQueries' = compiledQueries \cup {langKey}
               /\ undeleted' = IF langKey \in compiledQueries THEN undeleted
                               ELSE [undeleted EXCEPT ![langKey] = @ + 1]
               /\ IF signature = Null
                  THEN /\ handler' = [handler EXCEPT ![h] = Returns(this, NoResult, FALSE)]
                       /\ UNCHANGED proxies
                  ELSE GetEmbedder(h, [this EXCEPT !.signature = signature])
    /\ UNCHANGED <<db, store, connection, storeInitialized, embedder, cleanup, handled>>
    /\ UNCHANGED outsideExtension

\* The memory_search tool up to its first await.
MemorySearch(h, limit, openFails, countFails) ==
    /\ handler[h].pc = "idle"
    /\ handled < MaxHandled
    /\ handled' = handled + 1
    /\ LET this == [NoHandler EXCEPT !.kind = "memory_search", !.limit = limit]
           opened == ensureStore(openFails)
       IN /\ store' = opened.store
          /\ connection' = opened.connection
          /\ storeInitialized' = opened.storeInitialized
          /\ IF ~opened.ok
             THEN /\ ~countFails
                  /\ handler' = [handler EXCEPT ![h] = Returns(this, NoResult, FALSE)]
                  /\ UNCHANGED proxies
             ELSE IF countFails
             THEN /\ handler' = [handler EXCEPT ![h] = Returns(this, NoResult, TRUE)]
                  /\ UNCHANGED proxies
             ELSE IF count(db) = 0
             THEN /\ handler' = [handler EXCEPT ![h] = Returns(this, NoResult, FALSE)]
                  /\ UNCHANGED proxies
             ELSE GetEmbedder(h, this)
    /\ UNCHANGED <<db, embedder, cleanup>>
    /\ UNCHANGED <<parserInitialized, loadedLanguages, compiledQueries, undeleted>>
    /\ UNCHANGED outsideExtension

\* The /remember command, called with a text, up to its first await.
Remember(h, openFails) ==
    /\ handler[h].pc = "idle"
    /\ handled < MaxHandled
    /\ handled' = handled + 1
    /\ LET this == [NoHandler EXCEPT !.kind = "remember"]
           opened == ensureStore(openFails)
       IN /\ store' = opened.store
          /\ connection' = opened.connection
          /\ storeInitialized' = opened.storeInitialized
          /\ IF ~opened.ok
             THEN /\ handler' = [handler EXCEPT ![h] = Returns(this, NoResult, FALSE)]
                  /\ UNCHANGED proxies
             ELSE GetEmbedder(h, this)
    /\ UNCHANGED <<db, embedder, cleanup>>
    /\ UNCHANGED <<parserInitialized, loadedLanguages, compiledQueries, undeleted>>
    /\ UNCHANGED outsideExtension

\* getEmbedder resumes after `await createEmbedderProxy()`: it assigns the
\* new proxy to `embedder` and returns it.
ProxyCreated(h) ==
    /\ handler[h].pc = "awaitProxy"
    /\ embedder' = handler[h].emb
    /\ handler' = [handler EXCEPT ![h].pc = "awaitGet"]
    /\ UNCHANGED <<db, store, connection, storeInitialized, proxies, cleanup, handled>>
    /\ UNCHANGED <<parserInitialized, loadedLanguages, compiledQueries, undeleted>>
    /\ UNCHANGED outsideExtension

\* The handler resumes after `await getEmbedder()` and calls emb.embed: the
\* proxy spawns a child unless it has one, and the handler waits.
Embed(h) ==
    /\ handler[h].pc = "awaitGet"
    /\ proxies' = [proxies EXCEPT ![handler[h].emb] = "alive"]
    /\ handler' = [handler EXCEPT ![h].pc = "awaitEmbed"]
    /\ UNCHANGED <<db, store, connection, storeInitialized, embedder, cleanup, handled>>
    /\ UNCHANGED <<parserInitialized, loadedLanguages, compiledQueries, undeleted>>
    /\ UNCHANGED outsideExtension

\* The rest of the tool_result handler, with the query vector.
Recall(this, queryVec, storeFails) ==
    IF store = "null" \/ storeFails
    THEN Returns(this, NoResult, FALSE)
    ELSE LET matches == search(db, queryVec, SIMILARITY_THRESHOLD, MAX_MEMORIES_PER_READ)
         IN IF Len(matches) = 0
            THEN Returns(this, NoResult, FALSE)
            ELSE Returns(this,
                         [changed |-> TRUE,
                          content |-> NewContent(this.event.content,
                                                 FirstText(this.event.content),
                                                 formatMemoryBlock(matches))],
                         FALSE)

\* emb.embed settles.  It rejects when the worker fails or its child was
\* killed, and the catch block takes over; else the handler goes on with the
\* vector: store.search, or store.add for /remember.  `store` is read then:
\* it is null after the cleanup, and a call on it throws into the catch block.
EmbedSettles(h, queryVec, rejects, storeFails) ==
    /\ handler[h].pc = "awaitEmbed"
    /\ proxies[handler[h].emb] = "killed" => rejects
    /\ rejects => ~storeFails
    /\ handler[h].kind = "remember" => queryVec = EmbeddingOfText
    /\ LET this == handler[h]
       IN IF rejects
          THEN /\ handler' = [handler EXCEPT ![h] = Returns(this, NoResult, FALSE)]
               /\ UNCHANGED db
          ELSE IF this.kind = "tool_result"
          THEN /\ handler' = [handler EXCEPT ![h] = Recall(this, queryVec, storeFails)]
               /\ UNCHANGED db
          ELSE IF this.kind = "memory_search"
          THEN /\ handler' = [handler EXCEPT ![h] = Returns(this, NoResult, FALSE)]
               /\ UNCHANGED db
          ELSE /\ handler' = [handler EXCEPT ![h] = Returns(this, NoResult, FALSE)]
               /\ db' = IF store = "null" \/ storeFails THEN db
                        ELSE AddBody(db, "t1", now, "manual", queryVec, "none")
    /\ UNCHANGED <<store, connection, storeInitialized, embedder, proxies, cleanup, handled>>
    /\ UNCHANGED <<parserInitialized, loadedLanguages, compiledQueries, undeleted>>
    /\ UNCHANGED outsideExtension

\* The host has the handler's result.
HandlerReturn(h) ==
    /\ handler[h].pc = "returned"
    /\ handler' = [handler EXCEPT ![h] = NoHandler]
    /\ UNCHANGED <<db, store, connection, storeInitialized, embedder, proxies,
                   cleanup, handled>>
    /\ UNCHANGED <<parserInitialized, loadedLanguages, compiledQueries, undeleted>>
    /\ UNCHANGED outsideExtension

\* if (store) { store.close(); store = null }
CloseStore ==
    /\ store' = "null"
    /\ connection' = IF store = "open" THEN "closed" ELSE connection

\* The session_shutdown cleanup handler up to its await, or to its end when
\* there is no embedder: disposeSignatureExtractor(), then embedder.dispose(),
\* which kills the child of that proxy.
Cleanup ==
    /\ cleanup.pc = "idle"
    /\ cleanup.completed < MaxCleanups
    /\ LET s == disposeSignatureExtractor(Caches)
       IN /\ compiledQueries' = s.compiledQueries
          /\ loadedLanguages' = s.loadedLanguages
          /\ parserInitialized' = s.parserInitialized
          /\ undeleted' = s.undeleted
    /\ IF embedder # 0
       THEN /\ proxies' = [proxies EXCEPT ![embedder] =
                             IF @ = "alive" THEN "killed" ELSE @]
            /\ cleanup' = [cleanup EXCEPT !.pc = "awaitDispose", !.handled = handled]
            /\ UNCHANGED <<store, connection>>
       ELSE /\ CloseStore
            /\ cleanup' = [cleanup EXCEPT !.completed = @ + 1, !.handled = handled]
            /\ UNCHANGED proxies
    /\ UNCHANGED <<db, storeInitialized, embedder, handler, handled>>
    /\ UNCHANGED outsideExtension

\* The cleanup handler resumes after `await embedder.dispose()`.
CleanupResumes ==
    /\ cleanup.pc = "awaitDispose"
    /\ embedder' = 0
    /\ CloseStore
    /\ cleanup' = [cleanup EXCEPT !.pc = "idle", !.completed = @ + 1]
    /\ UNCHANGED <<db, storeInitialized, proxies, handler, handled>>
    /\ UNCHANGED <<parserInitialized, loadedLanguages, compiledQueries, undeleted>>
    /\ UNCHANGED outsideExtension

ExtensionNext ==
    \/ \E h \in Callers, event \in Events, openFails \in BOOLEAN, countFails \in BOOLEAN :
          ToolResult(h, event, openFails, countFails)
    \/ \E h \in Callers, throws \in BOOLEAN : SignatureSettles(h, throws)
    \/ \E h \in Callers, openFails \in BOOLEAN, countFails \in BOOLEAN :
          MemorySearch(h, DefaultSearchLimit, openFails, countFails)
    \/ \E h \in Callers, openFails \in BOOLEAN : Remember(h, openFails)
    \/ \E h \in Callers : ProxyCreated(h)
    \/ \E h \in Callers : Embed(h)
    \/ \E h \in Callers, queryVec \in QueryVecs, rejects \in BOOLEAN, storeFails \in BOOLEAN :
          EmbedSettles(h, queryVec, rejects, storeFails)
    \/ \E h \in Callers : HandlerReturn(h)
    \/ Cleanup
    \/ CleanupResumes

Init ==
    /\ StoreInit /\ ProxyInit /\ ExtractorInit /\ SignatureInit /\ CallsInit /\ RunInit
    /\ ExtensionInit

\* The store, called by one caller.
SpecStore == Init /\ [][StoreNext]_vars

\* The proxy, its children and its callers.
SpecProxy == Init /\ [][ProxyNext]_vars

\* The worker and the parent that writes to its stdin.
InitWorker ==
    /\ StoreInit /\ WorkerInit /\ ExtractorInit /\ SignatureInit /\ CallsInit /\ RunInit
    /\ ExtensionInit
SpecWorker == InitWorker /\ [][WorkerNext]_vars

\* The extension instance, its handlers and the store it finds on disk.
InitExtension ==
    /\ db \in StartStores
    /\ now = 0 /\ ret = NoRet /\ returnedIds = <<>> /\ deleted = {}
    /\ ProxyInit /\ ExtractorInit /\ SignatureInit /\ CallsInit /\ RunInit
    /\ ExtensionInit
SpecExtension == InitExtension /\ [][ExtensionNext]_vars

\* extractMemories, its caller and the completion function.
SpecExtractor == Init /\ [][ExtractorNext]_vars

\* detectLanguage and extractSignature, and their caller.
SpecSignature == Init /\ [][SignatureNext]_vars

\* extractSignature, extractSignatureLines and disposeSignatureExtractor,
\* called by one caller.
SpecExtract == Init /\ [][ExtractNext]_vars

\* The same with concurrent callers.
SpecCalls == Init /\ [][CallsNext]_vars

\* The runs of the extraction worker on one store.
SpecRun == Init /\ [][RunNext]_vars

\* ------------------------------------------------------------- the claims
Ids(result) == {result[i].memory.id : i \in 1..Len(result)}
Similarity(d, id, query) == l2ToCosine(L2Distance(d.memories_vec[id], query))

\* C1: in every reachable state, after any adds and deletes, failed ones
\* included, the ids of the memories table are the rowids of the vector
\* index, and every embedding row has the store's dimension.
C1_TablesAgree ==
    /\ DOMAIN db.memories = DOMAIN db.memories_vec
    /\ \A i \in DOMAIN db.memories_vec : Len(db.memories_vec[i]) = Dim

\* C1 witness: an add whose second insert threw has returned, on a store that
\* holds a memory.
C1_Witness ==
    /\ ret.op = "add" /\ ret.fault = "second" /\ ret.err = "io"
    /\ count(db) > 0

\* C2: an add or a search with an embedding of a length other than Dim fails
\* with an error that names Dim and the length, and leaves the tables, count()
\* and list() as they were.
C2_DimensionMismatch ==
    [][(/\ ret.op = "none"
        /\ ret'.op \in {"add", "search"}
        /\ Len(ret'.embedding) # Dim)
       => /\ ret'.err = "dim"
          /\ ret'.expected = Dim
          /\ ret'.actual = Len(ret'.embedding)
          /\ db' = db
          /\ count(db') = count(db)
          /\ Lists(db') = Lists(db)]_vars

\* C2 witness: an add with a wrong dimension has failed on a non-empty store.
C2_Witness ==
    /\ ret.op = "add" /\ ret.err = "dim" /\ ret.actual # ret.expected
    /\ count(db) > 0

\* C3: search(embedding, threshold, k) returns at most k results, for every
\* k >= 0.
C3_AtMostLimit ==
    (ret.op = "search" /\ ret.err = "none") => Len(ret.result) <= ret.limit

\* C4: the results of search are in order of non-increasing similarity.
C4_SortedBySimilarity ==
    (ret.op = "search" /\ ret.err = "none")
    => \A i \in 1..Len(ret.result) - 1 :
          ret.result[i].similarity >= ret.result[i + 1].similarity

\* C4 witness: a search returned two memories of different similarity, the
\* more similar one being the one stored later.
C4_Witness ==
    /\ ret.op = "search" /\ Len(ret.result) >= 2
    /\ ret.result[1].similarity > ret.result[2].similarity
    /\ ret.result[1].memory.id > ret.result[2].memory.id

\* C5: every match of search has similarity >= threshold, and no stored
\* memory whose similarity to the query is below the threshold is returned.
C5_AboveThreshold ==
    (ret.op = "search" /\ ret.err = "none")
    => /\ \A i \in 1..Len(ret.result) : ret.result[i].similarity >= ret.threshold
       /\ \A id \in Joined(db) :
             Similarity(db, id, ret.embedding) < ret.threshold
             => id \notin Ids(ret.result)

\* C5 witness: a search returned a memory and left out a stored one that is
\* below the threshold, with room left under the limit.
C5_Witness ==
    /\ ret.op = "search" /\ ret.err = "none"
    /\ Len(ret.result) >= 1 /\ Len(ret.result) < ret.limit
    /\ \E id \in Joined(db) : Similarity(db, id, ret.embedding) < ret.threshold

\* C6: for one store state, query and limit, the ids search returns at a
\* threshold t2 are among those it returns at any threshold t1 <= t2.
C6_ThresholdMonotone ==
    (ret.op = "search" /\ ret.err = "none")
    => \A t2 \in Thresholds :
          ret.threshold <= t2
          => Ids(search(db, ret.embedding, t2, ret.limit)) \subseteq Ids(ret.result)

\* C6 witness: raising the threshold of the search that returned removes a
\* result and keeps another.
C6_Witness ==
    /\ ret.op = "search" /\ ret.err = "none"
    /\ \E t2 \in Thresholds :
          /\ ret.threshold < t2
          /\ Ids(search(db, ret.embedding, t2, ret.limit)) # {}
          /\ Ids(search(db, ret.embedding, t2, ret.limit)) # Ids(ret.result)

\* C7: a delete of a stored id takes the memory out of list() and of the
\* vector index and lowers count() by one; no later search or list returns a
\* deleted id; a delete of an id that is not stored does not throw and leaves
\* the tables, count() and list() as they were.
C7_Delete ==
    [][/\ (/\ ret.op = "none" /\ ret'.op = "delete" /\ ret'.fault = "none")
          => /\ ret'.err = "none"
             /\ IF ret'.id \in DOMAIN db.memories
                THEN /\ count(db') = count(db) - 1
                     /\ \A s \in Lists(db') : \A i \in 1..Len(s) : s[i].id # ret'.id
                     /\ ret'.id \notin DOMAIN db'.memories_vec
                ELSE /\ db' = db
                     /\ count(db') = count(db)
                     /\ Lists(db') = Lists(db)
       /\ (ret'.op = "search" /\ ret'.err = "none")
          => Ids(ret'.result) \cap deleted' = {}
       /\ ret'.op = "list"
          => \A i \in 1..Len(ret'.result) : ret'.result[i].id \notin deleted']_vars

\* C7 witness: a delete of a stored id has returned and another memory is
\* still stored.
C7_Witness ==
    /\ ret.op = "delete" /\ ret.err = "none" /\ ret.id \in deleted
    /\ count(db) > 0

\* C8: every id add returns is greater than every id returned before it.
C8_IdsIncrease ==
    \A i, j \in 1..Len(returnedIds) : i < j => returnedIds[i] < returnedIds[j]

\* C8 witness: an add has returned after the memory with the highest id so
\* far was deleted.
C8_Witness ==
    /\ ret.op = "add" /\ ret.err = "none"
    /\ ret.id - 1 \in deleted

\* The proxy handles, in this step, the error event of child k, or the exit
\* event of child k that ended by itself.
HandlesEnd(k) ==
    \/ proc[k] = "spawnfail" /\ proc'[k] = "errored"
    \/ proc[k] = "dead" /\ proc'[k] = "reaped"

\* After this step caller c still waits for child k: for the promise of its
\* spawn, with no ready line on the way to resolve it, or, holding the pending
\* slot, for the response to the request it wrote to it.
StillWaitsFor(c, k) ==
    /\ call'[c].k = k
    /\ \/ /\ call'[c].pc = "awaitReady"
          /\ readyP'[k] = "pending"
          /\ \A i \in 1..Len(stdout'[k]) : stdout'[k][i].type # "ready"
       \/ /\ call'[c].pc = "awaitResponse"
          /\ pending' = c

\* C9: a call never hangs because of the child: when the child a call waits
\* for has failed to spawn or has ended by itself, whether it had signalled
\* ready or not, the handler of its error or exit event leaves no call waiting
\* for it (a child that dispose killed is left aside).
C9_RejectedWhenChildGone ==
    [][\A k \in Children : HandlesEnd(k) => \A c \in Callers : ~StillWaitsFor(c, k)]_vars

\* C10: no child exists before the first embed, or embedBatch with texts;
\* at most one child is live at any time; and a live child is the one the
\* proxy references.
C10_OneChildReused ==
    /\ ncalls = 0 => \A k \in Children : proc[k] = "unspawned"
    /\ Cardinality({k \in Children : Live(k)}) <= 1
    /\ \A k \in Children : Live(k) => child = k

\* The line handler takes, in this step, an error message of child k while a
\* request holds the pending slot.
AnswersError(k) ==
    /\ stdout[k] # <<>>
    /\ stdout'[k] = Tail(stdout[k])
    /\ Head(stdout[k]).type = "error"
    /\ pending # ""

\* C11: a failure of embedding is a failed call: the call that holds the
\* pending slot is rejected when the worker answers {type: "error"}; no call
\* is left waiting for a child that crashed, once its exit event is handled;
\* and a call with texts never resolves with no vectors.
C11_FailureReported ==
    [][/\ \A k \in Children : AnswersError(k) =>
              /\ call'[pending].pc = "rejected"
              /\ call'[pending].error = "worker"
       /\ \A k \in Children : (proc[k] = "dead" /\ proc'[k] = "reaped") =>
              \A c \in Callers : ~StillWaitsFor(c, k)
       /\ \A c \in Callers : (call'[c].pc = "resolved" /\ call'[c].n >= 1) =>
              call'[c].value >= 1]_vars

\* The line handler of the proxy takes, in this step, a line of child k that
\* is no JSON.
ProxySkips(k) ==
    /\ stdout[k] # <<>>
    /\ stdout'[k] = Tail(stdout[k])
    /\ Head(stdout[k]).type = "noise"

\* The worker k reads, in this step, a line of its stdin that is no JSON.
WorkerSkips(k) ==
    /\ proc[k] = "ready" /\ proc'[k] = "ready"
    /\ stdin[k] # <<>>
    /\ stdin'[k] = Tail(stdin[k])
    /\ Head(stdin[k]).type = "noise"

\* C12: a line that is no JSON is skipped by its receiver.  The proxy settles
\* no request and changes none of its state, and writes nothing to the child;
\* the worker, going on, writes no message to its stdout.
C12_MalformedSkipped ==
    [][/\ \A k \in Children : ProxySkips(k) =>
              UNCHANGED <<child, rl, pending, readyP, call, stdin>>
       /\ \A k \in Children : WorkerSkips(k) =>
              UNCHANGED stdout]_vars

\* Caller c, whose last call is settled, calls embedBatch([]) in this step:
\* its call record changes and is one for no text.
CallsEmptyBatch(c) ==
    /\ call[c].pc \in {"idle", "resolved", "rejected"}
    /\ call'[c] # call[c]
    /\ call'[c].n = 0

\* C13: embedBatch([]) returns the empty list without running the model; on
\* the proxy, in every state of the proxy, the call resolves with no vector
\* at once, spawns no child and writes no request.
C13_EmptyBatch ==
    [][/\ \A ok \in BOOLEAN : /\ ~embedBatch(0, ok).invoked
                              /\ embedBatch(0, ok).type = "result"
                              /\ embedBatch(0, ok).n = 0
       /\ \A c \in Callers : CallsEmptyBatch(c) =>
              /\ call'[c].pc = "resolved"
              /\ call'[c].value = 0
              /\ UNCHANGED <<child, rl, pending, readyP, proc, stdin, stdout>>]_vars

\* C13 witness: embedBatch([]) has resolved for one caller while the request
\* of the other is outstanding at a live child.
C13_Witness ==
    \E c, d \in Callers :
        /\ call[c] = [NoCall EXCEPT !.pc = "resolved"]
        /\ call[d].pc = "awaitResponse"
        /\ child # 0 /\ Live(child)
        /\ stdin[child] # <<>>

\* The text of the reply the call has parsed.
response == Build(reply)

\* extractMemories has ended on a reply of the completion function.
Replied ==
    /\ xpc \in {"returned", "rejected"}
    /\ messages > 0
    /\ extracted.status # "complete failed"

\* Some part of the text is the text of a JSON array.
HasParsableArray(text) ==
    \E i \in 1..Len(text) : \E j \in i..Len(text) :
        /\ JSONparse(SubSeq(text, i, j)).ok
        /\ JSONparse(SubSeq(text, i, j)).kind = "array"

\* C14: parseResponse never throws and returns a list; the list is empty
\* when the text is not JSON and holds no parsable array, and when the text
\* is JSON for a value that is no array.  So extractMemories returns the
\* empty list, and no error, on a malformed reply.
C14_NeverThrows ==
    Replied =>
        /\ xpc = "returned"
        /\ extracted.status = "ok"
        /\ (~JSONparse(response).ok /\ ~HasParsableArray(response))
               => extracted.memories = <<>>
        /\ (JSONparse(response).ok /\ JSONparse(response).kind # "array")
               => extracted.memories = <<>>

\* C14 witness: extractMemories has returned the empty list on a reply that
\* is prose around an unclosed bracket.
C14_Witness ==
    /\ Replied
    /\ reply = [wrap |-> "prose", core |-> <<"[", "M1">>]
    /\ extracted = [status |-> "ok", memories |-> <<>>]

\* An item of a parsed array is a memory: an object with a string text that
\* is not empty once trimmed, and a string rationale.
IsMemory(kind) ==
    /\ kind \in {"M1", "M2", "B1", "B2"}
    /\ AtomValue(kind).hasText /\ trim(AtomValue(kind).text) # <<>>
    /\ AtomValue(kind).hasRationale

\* The n-th element of a set of indices.
Nth(S, n) == CHOOSE i \in S : Cardinality({j \in S : j <= i}) = n

\* The memories of the items: those that are memories, in their order, with
\* text and rationale trimmed.
MemoriesOf(items, result) ==
    LET kept == {i \in 1..Len(items) : IsMemory(items[i])}
    IN /\ Len(result) = Cardinality(kept)
       /\ \A n \in 1..Len(result) :
              /\ result[n].text = trim(AtomValue(items[Nth(kept, n)]).text)
              /\ result[n].rationale = trim(AtomValue(items[Nth(kept, n)]).rationale)
       /\ \A n \in 1..Len(result) :
              /\ result[n].text # <<>>
              /\ result[n].text[1] # " " /\ result[n].text[Len(result[n].text)] # " "

\* C15: for a parsed array, parseResponse returns exactly the items that are
\* objects with a string text, not empty once trimmed, and a string rationale,
\* in their order, with text and rationale trimmed; the other items are
\* dropped.
C15_ValidItemsInOrder ==
    (Replied /\ Parsed(StripFences(response)).ok
             /\ Parsed(StripFences(response)).kind = "array")
        => MemoriesOf(Parsed(StripFences(response)).items, extracted.memories)

\* C15 witness: of the array [M1, B1, M2] the two memories are returned, in
\* this order and trimmed, and the item with a blank text is dropped.
C15_Witness ==
    /\ Replied
    /\ reply = [wrap |-> "plain", core |-> <<"[", "M1", ",", "B1", ",", "M2", "]">>]
    /\ extracted.memories = <<[text |-> <<"a">>, rationale |-> <<"r">>],
                              [text |-> <<"b">>, rationale |-> <<>>]>>

\* The text from the first "[" to the "]" that balances it: the first
\* balanced top-level array literal.
ArrayMatchBalanced(json) ==
    LET opens == {i \in 1..Len(json) : json[i] = "["}
        Depth(i, j) == Cardinality({n \in i..j : json[n] = "["})
                       - Cardinality({n \in i..j : json[n] = "]"})
        ends == IF opens = {} THEN {}
                ELSE {j \in Min(opens)..Len(json) : Depth(Min(opens), j) = 0}
    IN IF ends # {}
       THEN [found |-> TRUE, text |-> SubSeq(json, Min(opens), Min(ends))]
       ELSE [found |-> FALSE, text |-> <<>>]

\* C16: when the reply, its fences stripped, is no JSON, parseResponse parses
\* the first balanced top-level array literal of the text; so for a reply that
\* is prose, with or without brackets of its own, around one JSON array, the
\* memories of that array are returned.
C16_FirstBalancedArray ==
    /\ (Replied /\ ~JSONparse(StripFences(response)).ok) =>
           LET first == ArrayMatchBalanced(StripFences(response))
           IN IF first.found /\ JSONparse(first.text).ok
              THEN MemoriesOf(JSONparse(first.text).items, extracted.memories)
              ELSE extracted.memories = <<>>
    /\ (Replied /\ reply.wrap \in {"prose", "proseBrackets"}
                /\ reply.core \in ArrayTexts) =>
           MemoriesOf(JSONparse(reply.core).items, extracted.memories)

\* C17: fence transparency: for a JSON text J, the reply that is J in
\* triple-backtick fences, with the tag json, another tag or none, parses to
\* the list that J parses to.
C17_FenceTransparent ==
    (Replied /\ reply.wrap \in Fences /\ JSONparse(reply.core).ok)
        => extracted = parseResponse(reply.core)

\* C18: extractMemories with no message returns the empty list and does not
\* invoke the completion function; with messages it invokes it exactly once.
C18_CompleteOnceOrNever ==
    /\ (xpc # "idle" /\ messages = 0) =>
           /\ xpc = "returned"
           /\ extracted = [status |-> "ok", memories |-> <<>>]
           /\ completeCalls = 0
    /\ (xpc # "idle" /\ messages > 0) => completeCalls = 1

\* C18 witness: a call with no message has returned the empty list; the
\* completion function was not invoked.
C18_Witness ==
    /\ xpc = "returned"
    /\ messages = 0
    /\ completeCalls = 0
    /\ extracted.memories = <<>>

\* The path with its letters in upper case.
UpperChar(ch) ==
    CASE ch = "t" -> "T"
      [] ch = "s" -> "S"
      [] ch = "x" -> "X"
      [] OTHER -> ch
toUpperCase(str) == [i \in 1..Len(str) |-> UpperChar(str[i])]

\* The text of the path from its last ".", or the empty text.
Extension(filePath) ==
    IF \E i \in 1..Len(filePath) : filePath[i] = "."
    THEN LET last == CHOOSE i \in 1..Len(filePath) :
                         /\ filePath[i] = "."
                         /\ \A j \in (i + 1)..Len(filePath) : filePath[j] # "."
         IN SubSeq(filePath, last, Len(filePath))
    ELSE <<>>

\* C19: detectLanguage depends only on the text from the last "." of the
\* path, whatever the case of its letters: the result is null for a path
\* without ".", and else the language the extension table gives for that
\* text in lower case, or null when the table has none; the path in upper
\* case, and the extension alone, give the same result.
C19_DetectLanguage ==
    sig.op = "detectLanguage" =>
        LET ext == Extension(sig.filePath)
        IN /\ ext = <<>> => sig.language = "null"
           /\ ext # <<>> =>
                  /\ \A e \in EXTENSION_MAP :
                         toUpperCase(e.ext) = toUpperCase(ext) => sig.language = e.lang
                  /\ (\A e \in EXTENSION_MAP : toUpperCase(e.ext) # toUpperCase(ext))
                         => sig.language = "null"
                  /\ detectLanguage(ext) = sig.language
                  /\ detectLanguage(<<"x", "/">> \o ext) = sig.language
           /\ detectLanguage(toUpperCase(sig.filePath)) = sig.language
           /\ detectLanguage(toLowerCase(sig.filePath)) = sig.language

\* C19 witness: a path with two "." and an extension in mixed case is
\* detected as TypeScript.
C19_Witness ==
    /\ sig.op = "detectLanguage"
    /\ sig.filePath = <<".", ".", "T", "s">>
    /\ sig.language = "typescript"

\* The captures whose trimmed text is not empty and occurs for the first time.
FirstOccurrences(captures) ==
    {i \in 1..Len(captures) :
        /\ trim(captures[i]) # <<>>
        /\ \A j \in 1..(i - 1) : trim(captures[j]) # trim(captures[i])}

\* C20: for any sequence of captures of a parsed file, extractSignature
\* returns the path followed by the trimmed, non-empty capture texts joined
\* by " | ", each distinct text once, at the place of its first occurrence;
\* without such a text it returns null.
C20_SignatureNames ==
    (sig.op = "extractSignature" /\ sig.language # "null") =>
        LET first == FirstOccurrences(sig.captures)
            names == [n \in 1..Cardinality(first) |-> trim(sig.captures[Nth(first, n)])]
        IN IF first = {} THEN sig.result = Null
           ELSE sig.result = String(sig.filePath \o <<" ", "|", " ">> \o Join(names))

\* C20 witness: of the captures " A", "B", "A" the signature is "x.ts | A | B".
C20_Witness ==
    /\ sig.op = "extractSignature"
    /\ sig.captures = <<<<" ", "A">>, <<"B">>, <<"A">>>>
    /\ sig.result = String(<<"x", ".", "t", "s", " ", "|", " ", "A", " ", "|", " ", "B">>)

\* The call of caller c ends in this step.
Ends(c) == scall[c].pc # "done" /\ scall'[c].pc = "done"

\* The captures of the source of caller c's call.
CapturesOfCall(c) ==
    QueryCaptures(Parse(scall[c].langKey, scall[c].content),
                  LANGUAGES[scall[c].langKey])

\* The source of caller c's call gives no signature: its extension is not
\* supported, or its content is empty, or the query captures nothing in it.
NoSignature(c) ==
    \/ scall[c].langKey = "null"
    \/ scall[c].content = ""
    \/ CapturesOfCall(c) = <<>>

TopLevel(tree, query, n) ==
    \E i \in 1..Len(query) :
        /\ Matches(tree, n, query[i])
        /\ tree[Ancestor(tree, n, Len(query[i]) - 1)].parent = 1

\* The captures that are names of top-level declarations.
TopLevelCaptures(tree, query) ==
    SelectSeq(QueryCaptures(tree, query), LAMBDA n : TopLevel(tree, query, n))

\* C22: only top-level declarations contribute: the result of a call on a
\* parsed source is the one built from the names of the top-level
\* declarations, and no name of a nested declaration is captured.
C22_TopLevelOnly ==
    \A c \in Callers :
        scall[c].pc = "done" /\ scall[c].tree =>
            LET tree == Parse(scall[c].langKey, scall[c].content)
                query == LANGUAGES[scall[c].langKey]
            IN /\ QueryCaptures(tree, query) = TopLevelCaptures(tree, query)
               /\ scall[c].result =
                     FromCaptures(scall[c].fn, scall[c].filePath, tree,
                                  TopLevelCaptures(tree, query))

\* Node d is a declaration node of the query: a rule names its type for a
\* node other than the one tagged @name.
IsDeclaration(tree, query, d) ==
    \E i \in 1..Len(query) : \E k \in 1..(Len(query[i]) - 1) :
        tree[d].type = query[i][k].type

\* Node d encloses node n: it is an ancestor of n other than n.
Encloses(tree, d, n) == \E k \in 1..Len(tree) : Ancestor(tree, n, k) = d

\* C23: extractSignatureLines emits, for every capture, the first line of
\* the declaration node that encloses the captured name, and each
\* declaration node once, at the place of its first capture.
C23_DeclarationLines ==
    \A c \in Callers :
        scall[c].pc = "done" /\ scall[c].tree
        /\ scall[c].fn = "extractSignatureLines" =>
            LET tree == Parse(scall[c].langKey, scall[c].content)
                query == LANGUAGES[scall[c].langKey]
                caps == QueryCaptures(tree, query)
                decl == [i \in 1..Len(caps) |-> findDeclarationAncestor(tree, caps[i])]
                first == SelectSeq([i \in 1..Len(caps) |-> i],
                                   LAMBDA i : \A j \in 1..(i - 1) : decl[j] # decl[i])
            IN /\ \A i \in 1..Len(caps) :
                     /\ IsDeclaration(tree, query, decl[i])
                     /\ Encloses(tree, decl[i], caps[i])
               /\ scall[c].result =
                     Signature(scall[c].filePath,
                               [k \in 1..Len(first) |->
                                   trim(FirstLine(tree[decl[first[k]]].text))])

\* C24: since the last disposal Parser.init has been called at most once,
\* and for each language Language.load has been called at most once and at
\* most one query has been compiled, whatever the interleaving of the calls.
C24_InitialisedOnce ==
    /\ inits <= 1
    /\ \A l \in Languages : loads[l] <= 1 /\ compiles[l] <= 1

\* A step that releases something: it resets the flag or removes a grammar or
\* a query from its cache.
Releases ==
    \/ parserInitialized /\ ~parserInitialized'
    \/ ~(loadedLanguages \subseteq loadedLanguages')
    \/ ~(compiledQueries \subseteq compiledQueries')

\* C25: a disposal deletes every compiled query, empties both caches and
\* resets the flag; disposing what is disposed changes nothing; a call that
\* begins after it initialises the parser again, and a call on a parsed source
\* returns what the source determines, before and after a disposal.
C25_DisposeResets ==
    [][/\ Releases =>
             /\ Caches' = disposeSignatureExtractor(Caches)
             /\ compiledQueries' = {} /\ loadedLanguages' = {}
             /\ ~parserInitialized'
             /\ \A l \in Languages : undeleted'[l] = 0
             /\ disposeSignatureExtractor(Caches') = Caches'
       /\ \A c \in Callers :
             /\ scall[c].pc = "idle" /\ scall'[c].pc # "idle"
                /\ scall'[c].langKey # "null" /\ ~parserInitialized =>
                    scall'[c].pc = "awaitInit" /\ inits' = inits + 1
             /\ Ends(c) /\ scall'[c].tree =>
                    scall'[c].result =
                        Result(scall[c].fn, scall[c].filePath,
                               Parse(scall[c].langKey, scall[c].content))]_vars
C25_Witness ==
    /\ scall["a"].pc = "done"
    /\ scall["a"].reinit
    /\ scall["a"].tree
    /\ ~scall["a"].result.null
    /\ scall["a"].langKey \in compiledQueries

\* C26: list returns every stored memory once, newest first: a memory added
\* later (ids grow with the adds) comes before a memory added earlier.
C26_NewestFirst ==
    ret.op = "list" =>
        /\ Len(ret.result) = Cardinality(DOMAIN db.memories)
        /\ {ret.result[i].id : i \in 1..Len(ret.result)} = DOMAIN db.memories
        /\ \A i, j \in 1..Len(ret.result) :
              i < j => ret.result[i].id > ret.result[j].id

\* The store holds a row whose embedding is the query of the returned search.
HoldsQuery == \E id \in Joined(db) : db.memories_vec[id] = ret.embedding

\* C27: a search with a threshold of at most 1 and a limit of at least 1, on
\* a store that holds the query vector, returns first a memory at distance 0,
\* with similarity 1.
C27_ExactMatchFirst ==
    /\ ret.op = "search" /\ ret.err = "none"
    /\ ret.threshold <= SimUnit /\ ret.limit >= 1
    /\ HoldsQuery
    => /\ Len(ret.result) >= 1
       /\ ret.result[1].similarity = SimUnit
       /\ db.memories_vec[ret.result[1].memory.id] = ret.embedding
\* The exact match was added after a memory that differs from the query.
C27_Witness ==
    /\ ret.op = "search" /\ ret.err = "none"
    /\ ret.threshold = SimUnit /\ ret.limit = 1
    /\ 1 \in Joined(db) /\ db.memories_vec[1] # ret.embedding
    /\ Len(ret.result) = 1
    /\ ret.result[1].memory.id = 2
    /\ ret.result[1].similarity = SimUnit

\* A unit-normalised vector: its squared length is 1.
IsUnit(v) == SumSq(v, [i \in 1..Len(v) |-> 0]) = 1

\* C28: when the query and every stored vector are unit-normalised, every
\* match returned by search, at any threshold, has a similarity in [0, 1].
C28_SimilarityInUnitInterval ==
    /\ ret.op = "search" /\ ret.err = "none"
    /\ IsUnit(ret.embedding)
    /\ \A id \in Joined(db) : IsUnit(db.memories_vec[id])
    => \A i \in 1..Len(ret.result) :
          0 <= ret.result[i].similarity /\ ret.result[i].similarity <= SimUnit

\* The call of `op` is made in this step.
Calls(op) == ret.op = "none" /\ ret'.op = op

\* C29: no step changes a memory: a row and its embedding stay as they are
\* while the memory exists; add keeps every memory, delete(id) keeps every
\* memory but id, and search, list and count leave the tables as they are.
C29_NeverMutated ==
    [][/\ \A id \in DOMAIN db.memories \cap DOMAIN db'.memories :
             db'.memories[id] = db.memories[id]
       /\ \A id \in DOMAIN db.memories_vec \cap DOMAIN db'.memories_vec :
             db'.memories_vec[id] = db.memories_vec[id]
       /\ Calls("add") =>
             /\ DOMAIN db.memories \subseteq DOMAIN db'.memories
             /\ DOMAIN db.memories_vec \subseteq DOMAIN db'.memories_vec
       /\ Calls("delete") =>
             /\ DOMAIN db.memories \ {ret'.id} \subseteq DOMAIN db'.memories
             /\ DOMAIN db.memories_vec \ {ret'.id} \subseteq DOMAIN db'.memories_vec
       /\ Calls("search") \/ Calls("list") \/ Calls("count") => db' = db]_vars
\* An add at a later time has returned on a store that held a memory.
C29_Witness ==
    /\ ret.op = "add" /\ ret.err = "none" /\ ret.id = 2
    /\ 1 \in DOMAIN db.memories
    /\ db.memories[1].created_at # db.memories[2].created_at
    /\ db.memories_vec[1] # db.memories_vec[2]

\* C30: a turn of the loop takes the next candidate in order and stores it
\* exactly when search(vec, dedupThreshold, 1) on the store as it is then
\* returns nothing; a stored candidate has a similarity below dedupThreshold
\* to every memory the store held; the stored and the skipped candidates are
\* the candidates processed, and at the end all the extracted ones.
C30_Dedup ==
    [][/\ run.pc = "running" /\ run'.i # run.i =>
             LET vec == run.extracted[run.i]
                 unique == Len(search(db, vec, run.dedupThreshold, 1)) = 0
             IN /\ run'.i = run.i + 1
                /\ IF unique
                   THEN /\ run'.stored = run.stored + 1
                        /\ run'.skipped = run.skipped
                        /\ DOMAIN db'.memories = DOMAIN db.memories \cup {db'.seq}
                        /\ db'.seq \notin DOMAIN db.memories
                        /\ db'.memories_vec[db'.seq] = vec
                        /\ \A id \in Joined(db) :
                              Similarity(db, id, vec) < run.dedupThreshold
                   ELSE /\ run'.stored = run.stored
                        /\ run'.skipped = run.skipped + 1
                        /\ db' = db
                /\ run'.stored + run'.skipped = run'.i - 1
       /\ run'.pc = "ended" =>
             run'.stored + run'.skipped = Len(run'.extracted)]_vars
\* A run on an empty store has ended: its first candidate was stored and its
\* second, a duplicate of the first, skipped.
C30_Witness ==
    /\ run.pc = "ended"
    /\ Len(run.extracted) = 2
    /\ run.stored = 1 /\ run.skipped = 1
    /\ count(db) = 1

AtLeastThreshold ==
    {id \in DOMAIN db.memories :
        /\ id \in DOMAIN db.memories_vec
        /\ Similarity(db, id, ret.embedding) >= ret.threshold}

LinesOfType(s, t) == {i \in 1..Len(s) : s[i].type = t}

C37_WriteAfterReady ==
    \A k \in Children :
       (\E i \in 1..Len(stdin[k]) : stdin[k][i].type = "embed")
       => readyP[k] = "resolved"

\* A step of dispose() on a proxy that has a child: the proxy drops its child
\* and no exit or error event of a child is handled in the step.
DisposeStep ==
    /\ child # 0 /\ child' = 0
    /\ \A k \in Children : proc'[k] # proc[k] => proc'[k] = "killed"

\* C38: dispose kills the proxy's child at once when it still runs, writes no
\* exit message to it and settles no outstanding call; afterwards the proxy
\* references no child and no readline; no process but the proxy's child is
\* ever killed.
C38_DisposeKills ==
    [][/\ DisposeStep
          => /\ (Live(child) => proc'[child] = "killed")
             /\ proc'[child] \notin {"loading", "ready"}
             /\ rl' = 0
             /\ \A k \in Children :
                   \A i \in 1..Len(stdin'[k]) : stdin'[k][i].type # "exit"
             /\ \A k \in Children : Len(stdin'[k]) <= Len(stdin[k])
             /\ pending' = pending /\ call' = call /\ stdout' = stdout
       /\ \A k \in Children :
             (proc'[k] = "killed" /\ proc[k] # "killed") => (child = k /\ child' = 0)]_vars

\* C38 witness: dispose has killed a child that had a request outstanding;
\* the call is still waiting and the proxy references no child.
C38_Witness ==
    /\ child = 0 /\ rl = 0
    /\ pending # ""
    /\ call[pending].pc = "awaitResponse"
    /\ \E k \in Children : proc[k] = "killed"

\* A call is in flight from its first await until it is settled.
InFlight(c) == call[c].pc \in {"awaitReady", "ensured", "awaitResponse"}

\* embed / embedBatch of a serialized caller: it is called only when no other
\* call is in flight.
SerialCall(c, kind, n, spawnOk) ==
    /\ \A d \in Callers : ~InFlight(d)
    /\ Call(c, kind, n, spawnOk)

\* The proxy and its children with serialized callers.
SerialNext ==
    \/ \E c \in Callers, kind \in {"embed", "embedBatch"}, n \in BatchSizes \cup {1},
          spawnOk \in BOOLEAN : SerialCall(c, kind, n, spawnOk)
    \/ \E c \in Callers : Continue(c)
    \/ \E k \in Children : OnLine(k)
    \/ \E k \in Children : OnExit(k)
    \/ \E k \in Children : OnError(k)
    \/ Dispose
    \/ \E k \in Children : WorkerReady(k)
    \/ \E k \in Children : WorkerFatal(k)
    \/ \E k \in Children : WorkerCrash(k)
    \/ \E k \in Children, ok \in BOOLEAN : WorkerServe(k, ok)
    \/ \E k \in Children : WorkerNoise(k)

SpecSerial == Init /\ [][SerialNext]_vars

\* The step reads the response that child k wrote for the request of call c.
OwnResponse(c, k) ==
    /\ stdout[k] # <<>>
    /\ stdout'[k] = Tail(stdout[k])
    /\ Head(stdout[k]).type \in {"result", "error"}
    /\ Head(stdout[k]).to = c

\* The step handles the exit or the error event of child k.
OwnExit(k) ==
    /\ proc[k] \in {"dead", "killed", "spawnfail"}
    /\ proc'[k] \in {"reaped", "errored"}

\* C40: with serialized callers, a call whose request was written to child k
\* is settled only in a step that reads the response child k wrote for that
\* request, or that handles the exit or error of child k.
C40_SettledByOwnResponse ==
    [][\A c \in Callers :
          (call[c].pc = "awaitResponse" /\ call'[c].pc \in {"resolved", "rejected"})
          => \/ OwnResponse(c, call[c].k)
             \/ OwnExit(call[c].k)]_vars

\* The proxies whose child is alive.
AliveChildren == {p \in 1..Len(proxies) : proxies[p] = "alive"}

\* C31: as long as the cleanup handler has not run, the handlers of an
\* instance have created at most one embedder proxy, and at most one
\* embedding child is alive.
C31_SingleEmbedder ==
    (cleanup.pc = "idle" /\ cleanup.completed = 0)
    => /\ Len(proxies) <= 1
       /\ Cardinality(AliveChildren) <= 1

\* C32: once the cleanup handler has completed, and the handlers in flight
\* when it began have gone on (no handler was called since), no embedding
\* child of the instance is alive, the store connection is not open and the
\* signature extractor holds no grammar and no query.
C32_NothingLeftAfterCleanup ==
    (cleanup.pc = "idle" /\ cleanup.completed >= 1 /\ handled = cleanup.handled)
    => /\ AliveChildren = {}
       /\ connection # "open"
       /\ loadedLanguages = {} /\ compiledQueries = {}

\* C33: the tool_result handler never throws: whatever recall step fails,
\* it returns without a new content.
C33_RecallNeverBreaksRead ==
    \A h \in Callers :
       (handler[h].kind = "tool_result" /\ handler[h].pc = "returned")
       => ~handler[h].threw

\* The read result a tool_result handler was called with meets every
\* condition of recall: a read, no error, a path of a supported language and
\* a first text item that is not empty.
Eligible(event) ==
    /\ event.toolName = "read"
    /\ ~event.isError
    /\ event.path # <<>>
    /\ detectLanguage(event.path) # "null"
    /\ FirstText(event.content) # 0
    /\ event.content[FirstText(event.content)].text # <<>>

\* The entries of a <memory> block: its parts that begin a line with "- ".
Entries(text) == {i \in 1..Len(text) : text[i] = "- "}

====
